---------------------------- MODULE Spec2Model ----------------------------
(***************************************************************************)
(* The affine-transform strategies of geomagio/adjusted/Transform.py.      *)
(*                                                                         *)
(* Floating-point numbers are modelled as exact rationals <<n, d>> in      *)
(* lowest terms with d > 0; the float NaN is <<0, 0>>.  Inputs are drawn   *)
(* from small integer sets on which every quantity the code forms is       *)
(* rational (weights are perfect squares so that np.sqrt is exact), and    *)
(* the numerical rank scipy reports is the exact rank.                     *)
(***************************************************************************)
EXTENDS Integers, Sequences, FiniteSets, TLC

VARIABLES ordinates, absolutes, weights, strategy, result, chk

\* Transform.get_weights: the instance's memory attribute, the caller's times
\* and reference time, and the outcome of the call
VARIABLES memory, times, time, wresult

wvars == <<memory, times, time, wresult>>

\* MiniSeedInputClient: self.socket and the last call made on the client
VARIABLES socket, call

cvars == <<socket, call>>

\* geomagio/processing/obsrio.py: the run of obsrio_filter, filter_realtime or
\* one of the processing routines
VARIABLES obsrio

\* geomagio/algorithm/DBDTAlgorithm.py and geomagio/TimeseriesUtilities.py: the
\* call of one of their functions, with its arguments and its outcome
VARIABLES util

ovars == <<obsrio, util>>

vars == <<ordinates, absolutes, weights, strategy, result, chk, wvars, cvars, ovars>>

(***************************************************************************)
(* Rational arithmetic.                                                    *)
(***************************************************************************)
Abs(n) == IF n < 0 THEN -n ELSE n

RECURSIVE Gcd(_, _)
Gcd(a, b) == IF b = 0 THEN a ELSE Gcd(b, a % b)

NaN == <<0, 0>>

IsNaN(x) == x[2] = 0

Norm(n, d) ==
    IF d = 0 THEN NaN
    ELSE IF n = 0 THEN <<0, 1>>
    ELSE LET g == Gcd(Abs(n), Abs(d))
         IN  IF d < 0 THEN <<(-n) \div g, (-d) \div g>> ELSE <<n \div g, d \div g>>

Rat(n) == <<n, 1>>

Zero == <<0, 1>>

One == <<1, 1>>

RAdd(x, y) ==
    IF x[2] = 1 /\ y[2] = 1 THEN <<x[1] + y[1], 1>>
    ELSE IF IsNaN(x) \/ IsNaN(y) THEN NaN
    ELSE LET g == Gcd(x[2], y[2])
         IN  Norm(x[1] * (y[2] \div g) + y[1] * (x[2] \div g), (x[2] \div g) * y[2])

RNeg(x) == <<-x[1], x[2]>>

RSub(x, y) == RAdd(x, RNeg(y))

RMul(x, y) ==
    IF x[2] = 1 /\ y[2] = 1 THEN <<x[1] * y[1], 1>>
    ELSE IF IsNaN(x) \/ IsNaN(y) THEN NaN
    ELSE LET g == Gcd(Abs(x[1]), y[2])
             h == Gcd(Abs(y[1]), x[2])
         IN  Norm((x[1] \div g) * (y[1] \div h), (x[2] \div h) * (y[2] \div g))

RDiv(x, y) == Norm(x[1] * y[2], x[2] * y[1])

RLess(x, y) == x[1] * y[2] < y[1] * x[2]

RIsZero(x) == x[1] = 0 /\ x[2] # 0

\* the integer square root of a perfect square n >= 0, and -1 for any other n
RECURSIVE ISqrtBetween(_, _, _)
ISqrtBetween(n, lo, hi) ==
    IF lo > hi THEN -1
    ELSE LET mid == (lo + hi) \div 2
         IN  IF mid * mid = n THEN mid
             ELSE IF mid * mid < n THEN ISqrtBetween(n, mid + 1, hi)
             ELSE ISqrtBetween(n, lo, mid - 1)

ISqrt(n) == IF n < 0 THEN -1 ELSE ISqrtBetween(n, 0, IF n > 46340 THEN 46340 ELSE n)

\* np.sqrt on the rationals whose root is rational
IsSquare(x) == x[2] # 0 /\ ISqrt(x[1]) >= 0 /\ ISqrt(x[2]) >= 0

RSqrt(x) == <<ISqrt(x[1]), ISqrt(x[2])>>

(***************************************************************************)
(* Vectors are sequences of rationals, matrices sequences of rows.         *)
(***************************************************************************)
RECURSIVE RSumTo(_, _)
RSumTo(v, n) == IF n = 0 THEN Zero ELSE RAdd(RSumTo(v, n - 1), v[n])

RSum(v) == RSumTo(v, Len(v))

Dot(u, v) == RSum([i \in 1..Len(u) |-> RMul(u[i], v[i])])

Transpose(M, ncols) == [j \in 1..ncols |-> [i \in 1..Len(M) |-> M[i][j]]]

\* np.dot of an m x p matrix A with a p x n matrix B
MatMul(A, B, n) == [i \in 1..Len(A) |-> [j \in 1..n |-> Dot(A[i], [k \in 1..Len(B) |-> B[k][j]])]]

MatVec(A, v) == [i \in 1..Len(A) |-> Dot(A[i], v)]

\* F applied to the value of v (v is evaluated once, before F uses it)
With(v, F(_)) == CHOOSE y \in {F(x) : x \in {v}} : TRUE


Zeros(n) == [i \in 1..n |-> Zero]

Ones(n) == [i \in 1..n |-> One]

(***************************************************************************)
(* Gauss-Jordan elimination on the first ncols columns of M (further       *)
(* columns are carried along): the reduced matrix and its pivot columns.   *)
(***************************************************************************)
\* row p of M scaled to a unit pivot in column col is moved to row prow and
\* subtracted from every other row
PivotStep(M, col, prow, p) ==
    CHOOSE M2 \in
        { [i \in 1..Len(M) |->
             IF i = prow THEN pv
             ELSE IF RIsZero((IF i = p THEN M[prow] ELSE M[i])[col])
                  THEN (IF i = p THEN M[prow] ELSE M[i])
                  ELSE [j \in 1..Len(pv) |->
                          RSub((IF i = p THEN M[prow] ELSE M[i])[j],
                               RMul((IF i = p THEN M[prow] ELSE M[i])[col], pv[j]))]]
          : pv \in {[j \in 1..Len(M[1]) |-> RDiv(M[p][j], M[p][col])]} } : TRUE

RECURSIVE Elim(_, _, _, _, _)
Elim(M, col, prow, ncols, piv) ==
    IF col > ncols \/ prow > Len(M) THEN [m |-> M, pivots |-> piv]
    ELSE IF \A i \in prow..Len(M) : RIsZero(M[i][col])
         THEN Elim(M, col + 1, prow, ncols, piv)
         ELSE CHOOSE out \in
                 { Elim(M2, col + 1, prow + 1, ncols, piv2)
                   : <<M2, piv2>> \in
                       { <<PivotStep(M, col, prow,
                                     CHOOSE i \in prow..Len(M) :
                                        /\ ~RIsZero(M[i][col])
                                        /\ \A j \in prow..(i - 1) : RIsZero(M[j][col])),
                           Append(piv, col)>> } } : TRUE

\* the solution x of the nonsingular r x r system M x = rhs
Solve(M0, rhs0) ==
    With(M0, LAMBDA M :
      With(rhs0, LAMBDA rhs :
        With(Elim([i \in 1..Len(M) |-> Append(M[i], rhs[i])], 1, 1, Len(M), <<>>),
             LAMBDA e : [i \in 1..Len(M) |-> e.m[i][Len(M) + 1]])))

(***************************************************************************)
(* scipy.linalg.lstsq(A, b) for an m x k matrix A and a vector b: the      *)
(* minimum-norm minimiser x of |A x - b| and the rank of A.  With the full *)
(* rank factorisation A = B C (B the pivot columns of A, C the nonzero     *)
(* rows of its echelon form), x = C^T (C C^T)^-1 (B^T B)^-1 B^T b.         *)
(***************************************************************************)
lstsq_x(Bt, C, b, k) ==
    With(Solve([p \in 1..Len(Bt) |-> [q \in 1..Len(Bt) |-> Dot(Bt[p], Bt[q])]], MatVec(Bt, b)),
         LAMBDA t2 :
           With(IF Len(C) = k THEN t2
                ELSE Solve([p \in 1..Len(C) |-> [q \in 1..Len(C) |-> Dot(C[p], C[q])]], t2),
                LAMBDA t3 : [j \in 1..k |-> Dot([p \in 1..Len(C) |-> C[p][j]], t3)]))

lstsq_factored(A, b, k, e) ==
    With([p \in 1..Len(e.pivots) |-> [i \in 1..Len(A) |-> A[i][e.pivots[p]]]],
         LAMBDA Bt :
           With([p \in 1..Len(e.pivots) |-> e.m[p]],
                LAMBDA C : [x |-> lstsq_x(Bt, C, b, k), rank |-> Len(e.pivots)]))

lstsq(A0, b0, k) ==
    With(A0, LAMBDA A :
      With(b0, LAMBDA b :
        With(Elim(A, 1, 1, k, <<>>),
             LAMBDA e : IF Len(e.pivots) = 0 THEN [x |-> Zeros(k), rank |-> 0]
                        ELSE lstsq_factored(A, b, k, e))))

(***************************************************************************)
(* Outcomes of a call: a returned 4x4 matrix, or a raised exception.       *)
(***************************************************************************)
NoResult == [kind |-> "none", value |-> <<>>, exc |-> ""]

Return(M) == [kind |-> "return", value |-> M, exc |-> ""]

Raise(e) == [kind |-> "raise", value |-> <<>>, exc |-> e]

\* np.nan * np.ones((4, 4))
NaNs44 == [i \in 1..4 |-> [j \in 1..4 |-> RMul(NaN, One)]]

NoCheck == [kind |-> "none", val |-> Zero]

RankCheck(r) == [kind |-> "rank", val |-> Rat(r)]

SumCheck(S) == [kind |-> "sumS", val |-> RSum(S), S |-> S]

\* weights is None, or a vector
None == [given |-> FALSE, v |-> <<>>]

Given(w) == [given |-> TRUE, v |-> w]

\* np.asarray(values).astype(float) of a 3-channel integer input
AsFloat(values) == [c \in 1..3 |-> [i \in 1..Len(values[c]) |-> Rat(values[c][i])]]

VecAsFloat(w) == [k \in 1..Len(w) |-> Rat(w[k])]

(***************************************************************************)
(* class LeastSq                                                            *)
(***************************************************************************)
\* the length-3N vector whose entries s, s+3, s+6, ... are vs[s+1] (v[s::3] = vs[s+1])
Strided(vs) == [j \in 1..(3 * Len(vs[1])) |-> vs[((j - 1) % 3) + 1][((j - 1) \div 3) + 1]]

get_stacked_absolutes(abs) == Strided(<<abs[1], abs[2], abs[3]>>)

\* fault variant of StackedSqrtWeights: the weights are not square-rooted
StackedSqrtWeights_Raw(w) == Strided(LET r == [i \in 1..Len(w) |-> Rat(w[i])] IN <<r, r, r>>)

\* np.vstack((weights, weights, weights)).T.ravel() of the square-rooted weights
StackedSqrtWeights(w) == Strided(LET r == [i \in 1..Len(w) |-> RSqrt(Rat(w[i]))] IN <<r, r, r>>)

VecTimes(v, s) == [j \in 1..Len(v) |-> RMul(v[j], s[j])]

\* LeastSq.get_weighted_values for a vector and for a matrix (broadcast over rows)
LeastSq_get_weighted_values(values, w) ==
    IF ~w.given THEN values ELSE VecTimes(values, StackedSqrtWeights(w.v))

\* fault variant of LeastSq_get_weighted_rows: the design matrix is left unweighted
LeastSq_get_weighted_rows_Unweighted(values, w) == values

LeastSq_get_weighted_rows(values, w) ==
    IF ~w.given THEN values
    ELSE LET s == StackedSqrtWeights(w.v) IN [r \in 1..Len(values) |-> VecTimes(values[r], s)]

\* M_r, res, rank, sigma = spl.lstsq(ord_stacked.T, abs_stacked.T), as every
\* least-squares variant calls it
LeastSqSolve(ord_stacked0, abs_stacked0) ==
    With(ord_stacked0, LAMBDA ord_stacked :
      With(abs_stacked0, LAMBDA abs_stacked :
        lstsq(Transpose(ord_stacked, Len(abs_stacked)), abs_stacked, Len(ord_stacked))))

\* if rank < 3: return np.nan * np.ones((4, 4)); otherwise the formatted M_r
RankTest(s, formatted) ==
    [result |-> IF s.rank < 3 THEN Return(NaNs44) ELSE Return(formatted),
     chk |-> RankCheck(s.rank)]

BottomRow == <<Zero, Zero, Zero, One>>

\* fault variant of NoConstraints_format: the bottom row is not appended
NoConstraints_format_NoBottomRow(M_r) ==
    << <<M_r[1], M_r[2], M_r[3], M_r[4]>>,
       <<M_r[5], M_r[6], M_r[7], M_r[8]>>,
       <<M_r[9], M_r[10], M_r[11], M_r[12]>> >>

NoConstraints_format(M_r) ==
    << <<M_r[1], M_r[2], M_r[3], M_r[4]>>,
       <<M_r[5], M_r[6], M_r[7], M_r[8]>>,
       <<M_r[9], M_r[10], M_r[11], M_r[12]>>,
       BottomRow >>

NoConstraints_ord_stacked(ord) ==
    LET Z == Zeros(Len(ord[1]))
        I == Ones(Len(ord[1]))
    IN  << Strided(<<ord[1], Z, Z>>), Strided(<<ord[2], Z, Z>>),
           Strided(<<ord[3], Z, Z>>), Strided(<<I, Z, Z>>),
           Strided(<<Z, ord[1], Z>>), Strided(<<Z, ord[2], Z>>),
           Strided(<<Z, ord[3], Z>>), Strided(<<Z, I, Z>>),
           Strided(<<Z, Z, ord[1]>>), Strided(<<Z, Z, ord[2]>>),
           Strided(<<Z, Z, ord[3]>>), Strided(<<Z, Z, I>>) >>

NoConstraints_calculate(ord, abs, w) ==
    { RankTest(s, NoConstraints_format(s.x))
      : s \in { LeastSqSolve(LeastSq_get_weighted_rows(NoConstraints_ord_stacked(ord), w),
                   LeastSq_get_weighted_values(get_stacked_absolutes(abs), w)) } }

ZRotationShear_format(M_r) ==
    << <<M_r[1], M_r[2], Zero, M_r[3]>>,
       <<M_r[4], M_r[5], Zero, M_r[6]>>,
       <<Zero, Zero, M_r[7], M_r[8]>>,
       BottomRow >>

ZRotationShear_ord_stacked(ord) ==
    LET Z == Zeros(Len(ord[1]))
        I == Ones(Len(ord[1]))
    IN  << Strided(<<ord[1], Z, Z>>), Strided(<<ord[2], Z, Z>>), Strided(<<I, Z, Z>>),
           Strided(<<Z, ord[1], Z>>), Strided(<<Z, ord[2], Z>>), Strided(<<Z, I, Z>>),
           Strided(<<Z, Z, ord[3]>>), Strided(<<Z, Z, I>>) >>

ZRotationShear_calculate(ord, abs, w) ==
    { RankTest(s, ZRotationShear_format(s.x))
      : s \in { LeastSqSolve(LeastSq_get_weighted_rows(ZRotationShear_ord_stacked(ord), w),
                   LeastSq_get_weighted_values(get_stacked_absolutes(abs), w)) } }

VecNeg(v) == [i \in 1..Len(v) |-> RNeg(v[i])]

VecSub(u, v) == [i \in 1..Len(u) |-> RSub(u[i], v[i])]

\* fault variant of ZRotationHscale_format: the off-diagonal entry is not negated
ZRotationHscale_format_Symmetric(M_r) ==
    << <<M_r[1], M_r[2], Zero, M_r[3]>>,
       <<M_r[2], M_r[1], Zero, M_r[4]>>,
       <<Zero, Zero, M_r[5], M_r[6]>>,
       BottomRow >>

ZRotationHscale_format(M_r) ==
    << <<M_r[1], M_r[2], Zero, M_r[3]>>,
       <<RNeg(M_r[2]), M_r[1], Zero, M_r[4]>>,
       <<Zero, Zero, M_r[5], M_r[6]>>,
       BottomRow >>

ZRotationHscale_ord_stacked(ord) ==
    LET Z == Zeros(Len(ord[1]))
        I == Ones(Len(ord[1]))
    IN  << Strided(<<ord[1], ord[2], Z>>), Strided(<<ord[2], VecNeg(ord[1]), Z>>),
           Strided(<<I, Z, Z>>), Strided(<<Z, I, Z>>),
           Strided(<<Z, Z, ord[3]>>), Strided(<<Z, Z, I>>) >>

ZRotationHscale_calculate(ord, abs, w) ==
    { RankTest(s, ZRotationHscale_format(s.x))
      : s \in { LeastSqSolve(LeastSq_get_weighted_rows(ZRotationHscale_ord_stacked(ord), w),
                   LeastSq_get_weighted_values(get_stacked_absolutes(abs), w)) } }

ZRotationHscaleZbaseline_format(M_r) ==
    << <<M_r[1], M_r[2], Zero, Zero>>,
       <<RNeg(M_r[2]), M_r[1], Zero, Zero>>,
       <<Zero, Zero, One, M_r[3]>>,
       BottomRow >>

ZRotationHscaleZbaseline_ord_stacked(ord) ==
    LET Z == Zeros(Len(ord[1]))
        I == Ones(Len(ord[1]))
    IN  << Strided(<<ord[1], ord[2], Z>>), Strided(<<ord[2], VecNeg(ord[1]), Z>>),
           Strided(<<Z, Z, I>>) >>

\* abs_stacked[2::3] = absolutes[2] - ordinates[2]
ZRotationHscaleZbaseline_abs_stacked(ord, abs) ==
    Strided(<<abs[1], abs[2], VecSub(abs[3], ord[3])>>)

ZRotationHscaleZbaseline_calculate(ord, abs, w) ==
    { RankTest(s, ZRotationHscaleZbaseline_format(s.x))
      : s \in { LeastSqSolve(LeastSq_get_weighted_rows(ZRotationHscaleZbaseline_ord_stacked(ord), w),
                   LeastSq_get_weighted_values(ZRotationHscaleZbaseline_abs_stacked(ord, abs), w)) } }

Rescale3D_format(M_r) ==
    << <<M_r[1], Zero, Zero, Zero>>,
       <<Zero, M_r[2], Zero, Zero>>,
       <<Zero, Zero, M_r[3], Zero>>,
       BottomRow >>

Rescale3D_ord_stacked(ord) ==
    LET Z == Zeros(Len(ord[1]))
    IN  << Strided(<<ord[1], Z, Z>>), Strided(<<Z, ord[2], Z>>), Strided(<<Z, Z, ord[3]>>) >>

Rescale3D_calculate(ord, abs, w) ==
    { RankTest(s, Rescale3D_format(s.x))
      : s \in { LeastSqSolve(LeastSq_get_weighted_rows(Rescale3D_ord_stacked(ord), w),
                   LeastSq_get_weighted_values(get_stacked_absolutes(abs), w)) } }

\* TranslateOrigins.get_weighted_values: with weights None the factor is 1
\* fault variant of TranslateOrigins_get_weighted_values: np.sqrt is left out
TranslateOrigins_get_weighted_values_NoSqrt(values, w) ==
    VecTimes(values, IF w.given THEN StackedSqrtWeights_Raw(w.v) ELSE Ones(Len(values)))

TranslateOrigins_get_weighted_values(values, w) ==
    VecTimes(values, IF w.given THEN StackedSqrtWeights(w.v) ELSE Ones(Len(values)))

TranslateOrigins_get_weighted_rows(values, w) ==
    [r \in 1..Len(values) |-> TranslateOrigins_get_weighted_values(values[r], w)]

TranslateOrigins_format(M_r) ==
    << <<One, Zero, Zero, M_r[1]>>,
       <<Zero, One, Zero, M_r[2]>>,
       <<Zero, Zero, One, M_r[3]>>,
       BottomRow >>

TranslateOrigins_ord_stacked(ord) ==
    LET Z == Zeros(Len(ord[1]))
        I == Ones(Len(ord[1]))
    IN  << Strided(<<I, Z, Z>>), Strided(<<Z, I, Z>>), Strided(<<Z, Z, I>>) >>

\* fault variant of TranslateOrigins_abs_stacked: the ordinates are not subtracted
TranslateOrigins_abs_stacked_NoSubtract(ord, abs) == Strided(<<abs[1], abs[2], abs[3]>>)

\* abs_stacked[c::3] = absolutes[c] - ordinates[c] for the three channels
TranslateOrigins_abs_stacked(ord, abs) ==
    Strided(<<VecSub(abs[1], ord[1]), VecSub(abs[2], ord[2]), VecSub(abs[3], ord[3])>>)

TranslateOrigins_calculate(ord, abs, w) ==
    { RankTest(s, TranslateOrigins_format(s.x))
      : s \in { LeastSqSolve(TranslateOrigins_get_weighted_rows(TranslateOrigins_ord_stacked(ord), w),
                   TranslateOrigins_get_weighted_values(TranslateOrigins_abs_stacked(ord, abs), w)) } }

ShearYZ_format(M_r) ==
    << <<One, Zero, Zero, Zero>>,
       <<M_r[1], One, Zero, Zero>>,
       <<M_r[2], M_r[3], One, Zero>>,
       BottomRow >>

ShearYZ_ord_stacked(ord) ==
    LET Z == Zeros(Len(ord[1]))
        I == Ones(Len(ord[1]))
    IN  << Strided(<<I, Z, Z>>), Strided(<<ord[1], I, Z>>), Strided(<<ord[1], ord[2], I>>) >>

ShearYZ_calculate(ord, abs, w) ==
    { RankTest(s, ShearYZ_format(s.x))
      : s \in { LeastSqSolve(LeastSq_get_weighted_rows(ShearYZ_ord_stacked(ord), w),
                   LeastSq_get_weighted_values(get_stacked_absolutes(abs), w)) } }

(***************************************************************************)
(* class SVD                                                               *)
(***************************************************************************)
DirMax == 2

\* the integer directions with entries in -DirMax..DirMax, one per line through
\* the origin (coprime entries, first nonzero entry positive)
Dirs(n) ==
    { d \in [1..n -> (-DirMax)..DirMax] :
        /\ \E i \in 1..n : d[i] > 0 /\ \A j \in 1..(i - 1) : d[j] = 0
        /\ \A g \in 2..DirMax : \E i \in 1..n : d[i] % g # 0 }

Dirs2 == {[i \in 1..2 |-> Rat(d[i])] : d \in Dirs(2)}

Dirs3 == {[i \in 1..3 |-> Rat(d[i])] : d \in Dirs(3)}

DirsOf(n) == IF n = 2 THEN Dirs2 ELSE Dirs3

VecScale(c, v) == [i \in 1..Len(v) |-> RMul(c, v[i])]

\* np.linalg.det of a 2x2 or 3x3 matrix
Det(M) ==
    IF Len(M) = 2 THEN RSub(RMul(M[1][1], M[2][2]), RMul(M[1][2], M[2][1]))
    ELSE RAdd(RSub(RMul(M[1][1], RSub(RMul(M[2][2], M[3][3]), RMul(M[2][3], M[3][2]))),
                   RMul(M[1][2], RSub(RMul(M[2][1], M[3][3]), RMul(M[2][3], M[3][1])))),
              RMul(M[1][3], RSub(RMul(M[2][1], M[3][2]), RMul(M[2][2], M[3][1]))))

(***************************************************************************)
(* np.linalg.svd(H) of an n x n matrix: U, S, Vh with U and Vh orthogonal, *)
(* S non-negative and non-increasing and U diag(S) Vh = H.  LAPACK fixes   *)
(* neither the signs nor, for repeated or zero singular values, the        *)
(* vectors, so every factorisation that meets this contract is a possible  *)
(* outcome.  A factorisation is held as X, P, S, Y: column i of U is       *)
(* X[i] / sqrt(P[i]) and row i of Vh is Y[i] / sqrt(P[i]), which keeps     *)
(* every product the callers form (Vh.T D U.T) rational.  The candidates   *)
(* are the factorisations whose vectors lie along Dirs and whose singular  *)
(* values are rational; flipping the sign of column i of U together with   *)
(* row i of Vh changes none of those products, so X[i] has a fixed sign.   *)
(***************************************************************************)
\* x^T (H H^T) x / |x|^2, the eigenvalue of H H^T when x is an eigenvector
Rayleigh(HHt, x) == RDiv(Dot(x, MatVec(HHt, x)), Dot(x, x))

Parallel(v, x) == \A i, j \in 1..Len(x) : i < j => RMul(v[i], x[j]) = RMul(v[j], x[i])

IsEigenvector(HHt, x) == \E v \in {MatVec(HHt, x)} : Parallel(v, x)

\* the eigen-directions of H H^T among Dirs, each with sqrt of its eigenvalue
SingularDirs(HHt, n) ==
    { [x |-> e[1], p |-> Dot(e[1], e[1]), s |-> RSqrt(e[2])]
      : e \in { ev \in { <<d, Rayleigh(HHt, d)>> : d \in {dd \in DirsOf(n) : IsEigenvector(HHt, dd)} }
                : IsSquare(ev[2]) } }

Orth(u, v) == RIsZero(Dot(u, v))

\* the orthogonal frames of left singular vectors, in non-increasing order of
\* singular value
LeftFrames(E, n) ==
    IF n = 2
    THEN { <<a, b>> : a \in E, b \in {e \in E : TRUE} } \cap
         { f \in E \X E : Orth(f[1].x, f[2].x) /\ ~RLess(f[1].s, f[2].s) }
    ELSE UNION { { <<f[1], f[2], c>>
                   : c \in {e \in E : /\ Orth(f[1].x, e.x) /\ Orth(f[2].x, e.x)
                                      /\ ~RLess(f[2].s, e.s)} }
                 : f \in {g \in E \X E : Orth(g[1].x, g[2].x) /\ ~RLess(g[1].s, g[2].s)} }

\* the vectors of squared length p along Dirs, of either sign
UnitCandidates(p, n) ==
    UNION { {VecScale(RSqrt(RDiv(p, Dot(d, d))), d), VecScale(RNeg(RSqrt(RDiv(p, Dot(d, d)))), d)}
            : d \in {e \in DirsOf(n) : IsSquare(RDiv(p, Dot(e, e)))} }

\* row i of Vh for a left frame f: H^T x_i / s_i where s_i > 0, and any unit
\* vector orthogonal to the other rows where s_i = 0
RightRow(Ht, f, i, n) ==
    IF RIsZero(f[i].s) THEN UnitCandidates(f[i].p, n)
    ELSE {VecScale(RDiv(One, f[i].s), MatVec(Ht, f[i].x))}

RightFrames(Ht, f, n) ==
    IF n = 2
    THEN { y \in RightRow(Ht, f, 1, n) \X RightRow(Ht, f, 2, n) : Orth(y[1], y[2]) }
    ELSE { y \in RightRow(Ht, f, 1, n) \X RightRow(Ht, f, 2, n) \X RightRow(Ht, f, 3, n) :
             Orth(y[1], y[2]) /\ Orth(y[1], y[3]) /\ Orth(y[2], y[3]) }

\* U diag(S) Vh, entry [a][b] = sum_i S[i] X[i][a] Y[i][b] / P[i]
USVh(d, n) ==
    [a \in 1..n |-> [b \in 1..n |->
        RSum([i \in 1..n |-> RDiv(RMul(d.S[i], RMul(d.X[i][a], d.Y[i][b])), d.P[i])])]]

IsSVD(H, d, n) ==
    /\ \A i, j \in 1..n : i # j => Orth(d.X[i], d.X[j]) /\ Orth(d.Y[i], d.Y[j])
    /\ \A i \in 1..n : Dot(d.X[i], d.X[i]) = d.P[i] /\ Dot(d.Y[i], d.Y[i]) = d.P[i]
    /\ \A i \in 1..n : ~RLess(d.S[i], Zero)
    /\ \A i \in 1..(n - 1) : ~RLess(d.S[i], d.S[i + 1])
    /\ USVh(d, n) = H

SingularDirsOf(H0, n) == With(H0, LAMBDA H : SingularDirs(MatMul(H, Transpose(H, n), n), n))

\* the factorisations of H whose left singular vectors are a frame of F
Factorisations(H0, F, n) ==
    With(H0, LAMBDA H :
      With(Transpose(H, n), LAMBDA Ht :
        { d \in UNION { { [X |-> [i \in 1..n |-> f[i].x], P |-> [i \in 1..n |-> f[i].p],
                           S |-> [i \in 1..n |-> f[i].s], Y |-> y]
                          : y \in RightFrames(Ht, f, n) }
                        : f \in F }
          : IsSVD(H, d, n) }))

np_linalg_svd(H, n) == Factorisations(H, LeftFrames(SingularDirsOf(H, n), n), n)

\* S of np.linalg.svd(H), which is the same in every factorisation of H: the
\* non-increasing values carried by some orthogonal frame of the singular
\* directions E (empty when E holds no frame)
HasFrame(E, S, n) ==
    \E a \in E : /\ a.s = S[1]
                 /\ \E b \in E : /\ b.s = S[2]
                                 /\ Orth(a.x, b.x)
                                 /\ \/ n = 2
                                    \/ \E c \in E : c.s = S[3] /\ Orth(a.x, c.x) /\ Orth(b.x, c.x)

SingularValues(E, n) ==
    { S \in { T \in [1..n -> {e.s : e \in E}] : \A i \in 1..(n - 1) : ~RLess(T[i], T[i + 1]) }
        : HasFrame(E, S, n) }

\* np.dot(Vh.T, np.dot(np.diag(D), U.T)), entry [a][b] = sum_i Y[i][a] D[i] X[i][b] / P[i]
VhT_D_UT(d, D, n) ==
    [a \in 1..n |-> [b \in 1..n |->
        RSum([i \in 1..n |-> RDiv(RMul(D[i], RMul(d.Y[i][a], d.X[i][b])), d.P[i])])]]

\* np.average(values, weights=weights) raises ZeroDivisionError when the
\* weights sum to zero
WeightsSumToZero(w) == w.given /\ RIsZero(RSum(VecAsFloat(w.v)))

\* fault variant of np_average: the weighted sum is divided by the number of
\* samples instead of the sum of the weights
np_average_ByCount(values, wts) == RDiv(Dot(values, wts), Rat(Len(wts)))

\* fault variant of np_average: the mean with square-rooted weights
np_average_SqrtWeights(values, wts) ==
    RDiv(Dot(values, [k \in 1..Len(wts) |-> RSqrt(wts[k])]),
         RSum([k \in 1..Len(wts) |-> RSqrt(wts[k])]))

np_average(values, wts) == RDiv(Dot(values, wts), RSum(wts))

SVD_get_weighted_values(values, w) ==
    LET wts == IF w.given THEN VecAsFloat(w.v) ELSE Ones(Len(values[1]))
    IN  [i \in 1..3 |-> np_average(values[i], wts)]

get_stacked_values(values, weighted_values, ndims) ==
    [i \in 1..ndims |-> [k \in 1..Len(values[i]) |-> RSub(values[i][k], weighted_values[i])]]

\* fault variant of CrossCovariance: ordinates and absolutes exchanged
CrossCovariance_Exchanged(ord_stacked, wts, abs_stacked, ndims) ==
    [a \in 1..ndims |-> [b \in 1..ndims |->
        RSum([k \in 1..Len(wts) |-> RMul(abs_stacked[a][k], RMul(wts[k], ord_stacked[b][k]))])]]

\* np.dot(ord_stacked, np.dot(np.diag(weights), abs_stacked.T))
CrossCovariance(ord_stacked, wts, abs_stacked, ndims) ==
    [a \in 1..ndims |-> [b \in 1..ndims |->
        RSum([k \in 1..Len(wts) |-> RMul(ord_stacked[a][k], RMul(wts[k], abs_stacked[b][k]))])]]

\* fault variant of Rotation: the determinant correction is left out
Rotation_NoDeterminant(d, n) == VhT_D_UT(d, Ones(n), n)

\* R = np.dot(Vh.T, np.dot(np.diag([1, .., 1, np.linalg.det(np.dot(Vh.T, U.T))]), U.T))
Rotation(d, n) ==
    With(Det(VhT_D_UT(d, Ones(n), n)), LAMBDA det :
        VhT_D_UT(d, [i \in 1..n |-> IF i = n THEN det ELSE One], n))

RotationTranslation3D_format(R, T) ==
    << <<R[1][1], R[1][2], R[1][3], T[1]>>,
       <<R[2][1], R[2][2], R[2][3], T[2]>>,
       <<R[3][1], R[3][2], R[3][3], T[3]>>,
       BottomRow >>

\* the threshold test reads S only, so it is made once for all factorisations
RotationTranslation3D_solve(ord, abs, wts, wo, wa) ==
    With(CrossCovariance(get_stacked_values(ord, wo, 3), wts, get_stacked_values(abs, wa, 3), 3),
      LAMBDA H : With(SingularDirsOf(H, 3), LAMBDA E :
        UNION { IF RLess(RSum(S), Rat(3))
                THEN {[result |-> Return(NaNs44), chk |-> SumCheck(S)]}
                ELSE { With(Rotation(d, 3), LAMBDA R :
                         [result |-> Return(RotationTranslation3D_format(R, VecSub(wa, MatVec(R, wo)))),
                          chk |-> SumCheck(S)])
                       : d \in Factorisations(H, LeftFrames(E, 3), 3) }
                : S \in SingularValues(E, 3) }))

RotationTranslation3D_calculate(ord0, abs0, w0) ==
    With(ord0, LAMBDA ord : With(abs0, LAMBDA abs : With(w0, LAMBDA w :
        IF WeightsSumToZero(w) THEN {[result |-> Raise("ZeroDivisionError"), chk |-> NoCheck]}
        ELSE IF ~w.given THEN {[result |-> Raise("ValueError"), chk |-> NoCheck]}
        ELSE With(SVD_get_weighted_values(ord, w), LAMBDA wo :
               With(SVD_get_weighted_values(abs, w), LAMBDA wa :
                 RotationTranslation3D_solve(ord, abs, VecAsFloat(w.v), wo, wa))))))

RotationTranslationXY_format(R, T, wo, wa) ==
    << <<R[1][1], R[1][2], Zero, T[1]>>,
       <<R[2][1], R[2][2], Zero, T[2]>>,
       <<Zero, Zero, One, RSub(wa[3], wo[3])>>,
       BottomRow >>

Head2(v) == <<v[1], v[2]>>

RotationTranslationXY_solve(ord, abs, wts, wo, wa) ==
    With(CrossCovariance(get_stacked_values(ord, wo, 2), wts, get_stacked_values(abs, wa, 2), 2),
      LAMBDA H : With(SingularDirsOf(H, 2), LAMBDA E :
        UNION { IF RLess(RSum(S), Rat(2))
                THEN {[result |-> Return(NaNs44), chk |-> SumCheck(S)]}
                ELSE { With(Rotation(d, 2), LAMBDA R :
                         [result |-> Return(RotationTranslationXY_format(
                                         R, VecSub(Head2(wa), MatVec(R, Head2(wo))), wo, wa)),
                          chk |-> SumCheck(S)])
                       : d \in Factorisations(H, LeftFrames(E, 2), 2) }
                : S \in SingularValues(E, 2) }))

\* weights = np.ones_like(ordinates[0]) when weights is None
OnesIfNone(w, n) == IF w.given THEN w ELSE Given([k \in 1..n |-> 1])

RotationTranslationXY_calculate(ord0, abs0, w0) ==
    With(ord0, LAMBDA ord : With(abs0, LAMBDA abs : With(OnesIfNone(w0, Len(ord0[1])), LAMBDA w :
        IF WeightsSumToZero(w) THEN {[result |-> Raise("ZeroDivisionError"), chk |-> NoCheck]}
        ELSE With(SVD_get_weighted_values(ord, w), LAMBDA wo :
               With(SVD_get_weighted_values(abs, w), LAMBDA wa :
                 RotationTranslationXY_solve(ord, abs, VecAsFloat(w.v), wo, wa))))))

(***************************************************************************)
(* class QRFactorization                                                   *)
(***************************************************************************)
\* QRFactorization.get_weighted_values_lstsq on the two stacked rows
get_weighted_values_lstsq(values, w) ==
    IF ~w.given THEN values
    ELSE [i \in 1..2 |-> [k \in 1..Len(values[i]) |-> RMul(values[i][k], RSqrt(Rat(w.v[k])))]]

(***************************************************************************)
(* np.linalg.qr(A) of a 2 x 2 matrix, as LAPACK's dgeqrf and dorgqr        *)
(* compute it: one Householder reflector built by dlarfg from the first    *)
(* column (alpha, x) of A.  With x = 0 the reflector is the identity;      *)
(* otherwise beta = -sign(alpha) * norm(alpha, x), with sign(0) = +1, and  *)
(* Q = [[alpha, x], [x, -alpha]] / beta.  R = Q^T A.  The first column of  *)
(* A must have a rational length; otherwise there is no outcome.           *)
(***************************************************************************)
Householder(alpha, x) ==
    IF RIsZero(x) THEN {<<<<One, Zero>>, <<Zero, One>>>>}
    ELSE IF ~IsSquare(RAdd(RMul(alpha, alpha), RMul(x, x))) THEN {}
    ELSE { << <<RDiv(alpha, beta), RDiv(x, beta)>>, <<RDiv(x, beta), RNeg(RDiv(alpha, beta))>> >>
           : beta \in { IF RLess(alpha, Zero)
                        THEN RSqrt(RAdd(RMul(alpha, alpha), RMul(x, x)))
                        ELSE RNeg(RSqrt(RAdd(RMul(alpha, alpha), RMul(x, x)))) } }

np_linalg_qr(A) ==
    { [Q |-> Q, R |-> MatMul(Transpose(Q, 2), A, 2)] : Q \in Householder(A[1][1], A[2][1]) }

\* neg = np.diag(Q) < 0; Q[:, neg] = -1 * Q[:, neg]; R[neg, :] = -1 * R[neg, :]
NegateColumns(Q, neg) == [i \in 1..2 |-> [j \in 1..2 |-> IF j \in neg THEN RNeg(Q[i][j]) ELSE Q[i][j]]]

NegateRows(R, neg) == [i \in 1..2 |-> [j \in 1..2 |-> IF i \in neg THEN RNeg(R[i][j]) ELSE R[i][j]]]

NegativeDiagonal(Q) == {i \in 1..2 : RLess(Q[i][i], Zero)}

\* np.dot(np.linalg.inv(np.diag(np.diag(R))), R)
ScaleFree(R) == [i \in 1..2 |-> [j \in 1..2 |-> RDiv(R[i][j], R[i][i])]]

QRFactorization_format(QH, T, wo, wa) ==
    << <<QH[1][1], QH[1][2], Zero, T[1]>>,
       <<QH[2][1], QH[2][2], Zero, T[2]>>,
       <<Zero, Zero, One, RSub(wa[3], wo[3])>>,
       BottomRow >>

QRCheck(rank, Q) == [kind |-> "rank", val |-> Rat(rank), Q |-> Q]

QRFactorization_factor(M_rT, rank, wo, wa) ==
    { With(f, LAMBDA qr :
        With(NegativeDiagonal(qr.Q), LAMBDA neg :
          With(NegateColumns(qr.Q, neg), LAMBDA Q :
            With(NegateRows(qr.R, neg), LAMBDA R :
              IF RIsZero(R[1][1]) \/ RIsZero(R[2][2])
              THEN [result |-> Raise("LinAlgError"), chk |-> QRCheck(rank, Q)]
              ELSE With(MatMul(Q, ScaleFree(R), 2), LAMBDA QH :
                     [result |-> Return(QRFactorization_format(
                                     QH, VecSub(Head2(wa), MatVec(QH, Head2(wo))), wo, wa)),
                      chk |-> QRCheck(rank, Q)])))))
      : f \in np_linalg_qr(M_rT) }

\* spl.lstsq(ord_stacked.T, abs_stacked.T): one solve per column of the
\* right-hand side; column j of M_r is the solution for row j of abs_stacked
QRFactorization_solve(ord_stacked, abs_stacked, wo, wa) ==
    With(Transpose(ord_stacked, Len(ord_stacked[1])), LAMBDA A :
      With(lstsq(A, abs_stacked[1], 2), LAMBDA s1 :
        With(lstsq(A, abs_stacked[2], 2), LAMBDA s2 :
          IF s1.rank < 2
          THEN {[result |-> Return(NaNs44), chk |-> RankCheck(s1.rank)]}
          ELSE QRFactorization_factor(<<s1.x, s2.x>>, s1.rank, wo, wa))))

QRFactorization_calculate(ord0, abs0, w0) ==
    With(ord0, LAMBDA ord : With(abs0, LAMBDA abs : With(OnesIfNone(w0, Len(ord0[1])), LAMBDA w :
        IF WeightsSumToZero(w) THEN {[result |-> Raise("ZeroDivisionError"), chk |-> NoCheck]}
        ELSE With(SVD_get_weighted_values(abs, w), LAMBDA wa :
               With(SVD_get_weighted_values(ord, w), LAMBDA wo :
                 QRFactorization_solve(
                     get_weighted_values_lstsq(get_stacked_values(ord, wo, 2), w),
                     get_weighted_values_lstsq(get_stacked_values(abs, wa, 2), w), wo, wa))))))

(***************************************************************************)
(* The inputs: ordinates and absolutes are 3 x N integer channels, the     *)
(* absolutes an affine image of the ordinates; weights are None or N       *)
(* non-negative perfect squares.                                           *)
(***************************************************************************)
MaxRoot == 2

Unit == << <<1, 0, 0>>, <<0, 1, 0>>, <<0, 0, 1>> >>

UnitOrigin == << <<0, 1, 0, 0>>, <<0, 0, 1, 0>>, <<0, 0, 0, 1>> >>

Tetra == << <<1, 1, -1, -1>>, <<1, -1, 1, -1>>, <<1, -1, -1, 1>> >>

Square == << <<1, -1, -1, 1>>, <<1, 1, -1, -1>>, <<0, 0, 0, 0>> >>

Pair == << <<1, 0>>, <<0, 1>>, <<0, 0>> >>

Duplicated == << <<1, 1>>, <<2, 2>>, <<3, 3>> >>

Colinear == << <<-1, 0, 1>>, <<-1, 0, 1>>, <<0, 0, 0>> >>

Single == << <<1>>, <<2>>, <<3>> >>

Five == << <<0, 1, 0, 0, 1>>, <<0, 0, 1, 0, 1>>, <<0, 0, 0, 1, 1>> >>

OrdinateSets == {Unit, UnitOrigin, Tetra, Square, Pair, Duplicated, Colinear, Single, Five}

Identity == [A |-> << <<1, 0, 0>>, <<0, 1, 0>>, <<0, 0, 1>> >>, t |-> <<0, 0, 0>>]

RotZ90 == [A |-> << <<0, -1, 0>>, <<1, 0, 0>>, <<0, 0, 1>> >>, t |-> <<1, 1, 0>>]

SwapXY == [A |-> << <<0, 1, 0>>, <<1, 0, 0>>, <<0, 0, 1>> >>, t |-> <<0, 0, 0>>]

MirrorZ == [A |-> << <<1, 0, 0>>, <<0, 1, 0>>, <<0, 0, -1>> >>, t |-> <<0, 0, 0>>]

MirrorX == [A |-> << <<-1, 0, 0>>, <<0, 1, 0>>, <<0, 0, 1>> >>, t |-> <<0, 0, 2>>]

Scale == [A |-> << <<2, 0, 0>>, <<0, 2, 0>>, <<0, 0, 2>> >>, t |-> <<0, 0, 0>>]

Translate == [A |-> << <<1, 0, 0>>, <<0, 1, 0>>, <<0, 0, 1>> >>, t |-> <<1, 2, 3>>]

ProjectX == [A |-> << <<1, 0, 0>>, <<0, 0, 0>>, <<0, 0, 0>> >>, t |-> <<0, 1, 0>>]

Collapse == [A |-> << <<0, 0, 0>>, <<0, 0, 0>>, <<0, 0, 0>> >>, t |-> <<1, 1, 1>>]

Maps == {Identity, RotZ90, SwapXY, MirrorZ, MirrorX, Scale, Translate, ProjectX, Collapse}

Apply(m, ord) ==
    [c \in 1..3 |-> [k \in 1..Len(ord[1]) |->
        m.A[c][1] * ord[1][k] + m.A[c][2] * ord[2][k] + m.A[c][3] * ord[3][k] + m.t[c]]]

\* uniform weights r^2, the ramp 0, 1, 4, ... (the squares of np.arange(N),
\* capped at MaxRoot^2), and the ramp reversed
Uniform(n, r) == [k \in 1..n |-> r * r]

Ramp(n) == [k \in 1..n |-> IF k - 1 > MaxRoot THEN MaxRoot * MaxRoot ELSE (k - 1) * (k - 1)]

RampDown(n) == [k \in 1..n |-> Ramp(n)[n + 1 - k]]

\* the ramp with every weight multiplied by 4
RampTimes4(n) == [k \in 1..n |-> 4 * Ramp(n)[k]]

WeightChoices(n) ==
    {None} \cup {Given(Uniform(n, r)) : r \in 0..MaxRoot} \cup {Given(Ramp(n)), Given(RampDown(n))}

Strategies ==
    {"NoConstraints", "ZRotationShear", "ZRotationHscale", "ZRotationHscaleZbaseline",
     "RotationTranslation3D", "Rescale3D", "TranslateOrigins", "ShearYZ",
     "RotationTranslationXY", "QRFactorization"}

(***************************************************************************)
(* MiniSeedInputClient of geomagio/edge/MiniSeedInputClient.py.  A socket  *)
(* is named by the number of the connection attempt that created it and    *)
(* None is 0; env[i] tells whether the i-th attempt of a call succeeds.    *)
(***************************************************************************)
MaxAttempts == 3

DefaultMaxAttempts == 2

NoSocket == 0

ClientReturn == [kind |-> "return", exc |-> "", at |-> 0]

\* the exception e raised by the step numbered n of the call
ClientRaise(e, n) == [kind |-> "raise", exc |-> e, at |-> n]

\* fault variant of GiveUp: one attempt more than max_attempts
GiveUp_OneMore(attempts, max_attempts) == attempts > max_attempts

\* if attempts >= max_attempts: raise
GiveUp(attempts, max_attempts) == attempts >= max_attempts

\* the while loop of connect, entered with attempts made so far
RECURSIVE connect_loop(_, _, _)
connect_loop(attempts0, max_attempts, env) ==
    LET attempts == attempts0 + 1
    IN  IF env[attempts]
        THEN [socket |-> attempts, attempts |-> attempts, outcome |-> ClientReturn]
        ELSE IF GiveUp(attempts, max_attempts)
        THEN [socket |-> NoSocket, attempts |-> attempts,
              outcome |-> ClientRaise("socket.error", attempts)]
        ELSE connect_loop(attempts, max_attempts, env)

connect(s, max_attempts, env) ==
    IF s # NoSocket
    THEN [socket |-> s, attempts |-> 0, outcome |-> ClientReturn]
    ELSE connect_loop(0, max_attempts, env)

\* encoded tells whether converting the stream to miniseed returns, sent
\* whether sendall returns
send(s, env, encoded, sent) ==
    LET c == IF s = NoSocket THEN connect(s, DefaultMaxAttempts, env)
             ELSE [socket |-> s, attempts |-> 0, outcome |-> ClientReturn]
    IN  IF c.outcome.kind = "raise"
        THEN [socket |-> c.socket, attempts |-> c.attempts, sendall |-> FALSE,
              sentOn |-> NoSocket, outcome |-> c.outcome]
        ELSE IF ~encoded
        THEN [socket |-> c.socket, attempts |-> c.attempts, sendall |-> FALSE,
              sentOn |-> NoSocket, outcome |-> ClientRaise("Exception", 0)]
        ELSE [socket |-> c.socket, attempts |-> c.attempts, sendall |-> TRUE,
              sentOn |-> c.socket,
              outcome |-> IF sent THEN ClientReturn ELSE ClientRaise("socket.error", 0)]

\* fault variant of close_finally: the socket is kept when its close raises
close_finally_OnlyOnReturn(s, closed) == IF closed THEN NoSocket ELSE s

\* finally: self.socket = None
close_finally(s, closed) == NoSocket

\* closed tells whether the socket's close returns
close(s, closed) ==
    IF s # NoSocket
    THEN [socket |-> close_finally(s, closed), closes |-> 1,
          outcome |-> IF closed THEN ClientReturn ELSE ClientRaise("socket.error", 0)]
    ELSE [socket |-> s, closes |-> 0, outcome |-> ClientReturn]

\* the record of a call: its arguments, the socket before it, what it did and
\* the operation that preceded it
CallRecord(op, k, env, before, attempts, sendall, sentOn, closes, outcome, prev) ==
    [op |-> op, k |-> k, env |-> env, before |-> before, attempts |-> attempts,
     sendall |-> sendall, sentOn |-> sentOn, closes |-> closes, outcome |-> outcome,
     prev |-> prev]

Envs == [1..(MaxAttempts + 1) -> BOOLEAN]

NoEnv == [i \in 1..(MaxAttempts + 1) |-> FALSE]

\* __init__: self.socket = None, no call made yet
NoCall ==
    CallRecord("init", 0, NoEnv, NoSocket, 0, FALSE, NoSocket, 0, ClientReturn,
               [op |-> "init", raised |-> FALSE])

NoClient ==
    /\ socket = NoSocket
    /\ call = NoCall

(***************************************************************************)
(* geomagio/processing/obsrio.py.  A run is entered at obsrio_filter, at   *)
(* filter_realtime or at obsrio_day; pc is the function that runs next,    *)
(* events the processing routines started and ended so far, in order.      *)
(***************************************************************************)
Run(entry, interval, input_factory, output_factory, pc, via, controller, events, outcome) ==
    [entry |-> entry, interval |-> interval, input_factory |-> input_factory,
     output_factory |-> output_factory, pc |-> pc, via |-> via,
     controller |-> controller, events |-> events, outcome |-> outcome]

\* no Controller was built
NoController == [inputFactory |-> "None", outputFactory |-> "None"]

\* no run was started
NoObsrio == Run("none", "", "None", "None", "done", "none", NoController, <<>>, "none")

\* a call of a function of DBDTAlgorithm.py or TimeseriesUtilities.py
UtilCall(op, stream, channels, starttime, endtime, gaps, out) ==
    [op |-> op, stream |-> stream, channels |-> channels, starttime |-> starttime,
     endtime |-> endtime, gaps |-> gaps, out |-> out]

\* no function was called
NoUtil == UtilCall("none", <<>>, <<>>, 0, 0, <<>>, [kind |-> "none", value |-> <<>>, exc |-> ""])

NoOthers ==
    /\ obsrio = NoObsrio
    /\ util = NoUtil

(***************************************************************************)
(* Transform.get_weights.  Times are integers; a float is an exact         *)
(* rational, +inf is <<1, 0>>, -inf is <<-1, 0>> and NaN is <<0, 0>>.  A   *)
(* weight np.exp(x) is represented by its exponent x, [ln |-> x]: exp is   *)
(* injective, exp(0) = 1, exp(-inf) = 0, exp(+inf) = +inf, exp(NaN) = NaN. *)
(***************************************************************************)
MaxTime == 2

MaxSamples == 3

MaxMemory == 2

PosInf == <<1, 0>>

NegInf == <<-1, 0>>

np_isinf(x) == x[2] = 0 /\ x[1] # 0

\* numpy division of a finite float x by a finite float y: a zero divisor
\* gives NaN for 0/0 and a signed infinity otherwise (with a RuntimeWarning)
FDiv(x, y) ==
    IF y[1] = 0
    THEN IF x[1] = 0 THEN NaN ELSE IF x[1] > 0 THEN PosInf ELSE NegInf
    ELSE RDiv(x, y)

np_exp(x) == [ln |-> x]

\* np.zeros gives exp(-inf)
np_zeros(n) == [i \in 1..n |-> np_exp(NegInf)]

\* fault variant of np_ones: zeros instead of ones
np_ones_Zeros(n) == [i \in 1..n |-> np_exp(NegInf)]

np_ones(n) == [i \in 1..n |-> np_exp(Zero)]

\* the reference time argument: omitted (None) or given
Omitted == [given |-> FALSE, v |-> 0]

At(t) == [given |-> TRUE, v |-> t]

\* the builtin max over the array, which raises on an empty one
RECURSIVE max(_)
max(ts) ==
    IF Len(ts) = 1 THEN ts[1]
    ELSE LET m == max(Tail(ts)) IN IF ts[1] >= m THEN ts[1] ELSE m

\* fault variant of DefaultTime: the earliest time instead of the latest
DefaultTime_Min(ts) == CHOOSE t \in {ts[i] : i \in 1..Len(ts)} : \A i \in 1..Len(ts) : t <= ts[i]

\* time = float(max(times)) when time is None
DefaultTime(ts) == max(ts)

\* the value written where times <= time
DecayBefore(t, ref, mem) == np_exp(FDiv(Rat(t - ref), mem))

\* fault variant of DecayAfter: the exponent keeps the sign of t - time
DecayAfter_Growing(t, ref, mem) == np_exp(FDiv(Rat(t - ref), mem))

\* the value written where times >= time
DecayAfter(t, ref, mem) == np_exp(FDiv(Rat(ref - t), mem))

\* the two masked assignments, in order
Decay(ts, ref, mem) ==
    LET n == Len(ts)
        w0 == np_zeros(n)
        w1 == [i \in 1..n |-> IF ts[i] <= ref THEN DecayBefore(ts[i], ref, mem) ELSE w0[i]]
    IN  [i \in 1..n |-> IF ts[i] >= ref THEN DecayAfter(ts[i], ref, mem) ELSE w1[i]]

get_weights(mem, ts, tm) ==
    IF ~tm.given /\ ts = <<>> THEN Raise("ValueError")
    ELSE LET ref == IF tm.given THEN tm.v ELSE DefaultTime(ts)
         IN  IF np_isinf(mem) THEN Return(np_ones(Len(ts)))
             ELSE Return(Decay(ts, ref, mem))

\* no get_weights call is in progress or was made
NoGetWeights ==
    /\ memory = PosInf
    /\ times = <<>>
    /\ time = Omitted
    /\ wresult = NoResult

Init ==
    /\ ordinates \in OrdinateSets
    /\ absolutes \in {Apply(m, ordinates) : m \in Maps}
    /\ weights \in WeightChoices(Len(ordinates[1]))
    /\ strategy = "none"
    /\ result = NoResult
    /\ chk = NoCheck
    /\ NoGetWeights
    /\ NoClient
    /\ NoOthers

\* transform.calculate(ordinates, absolutes, weights), called once: the call
\* either returns a matrix or raises
Call(s, outcomes) ==
    /\ strategy = "none"
    /\ \E o \in outcomes : result' = o.result /\ chk' = o.chk
    /\ strategy' = s
    /\ UNCHANGED <<ordinates, absolutes, weights>>
    /\ UNCHANGED <<wvars, cvars, ovars>>

CalculateNoConstraints ==
    Call("NoConstraints", NoConstraints_calculate(AsFloat(ordinates), AsFloat(absolutes), weights))

CalculateZRotationShear ==
    Call("ZRotationShear", ZRotationShear_calculate(AsFloat(ordinates), AsFloat(absolutes), weights))

CalculateZRotationHscale ==
    Call("ZRotationHscale", ZRotationHscale_calculate(AsFloat(ordinates), AsFloat(absolutes), weights))

CalculateZRotationHscaleZbaseline ==
    Call("ZRotationHscaleZbaseline",
         ZRotationHscaleZbaseline_calculate(AsFloat(ordinates), AsFloat(absolutes), weights))

CalculateRotationTranslation3D ==
    Call("RotationTranslation3D",
         RotationTranslation3D_calculate(AsFloat(ordinates), AsFloat(absolutes), weights))

CalculateRescale3D ==
    Call("Rescale3D", Rescale3D_calculate(AsFloat(ordinates), AsFloat(absolutes), weights))

CalculateTranslateOrigins ==
    Call("TranslateOrigins", TranslateOrigins_calculate(AsFloat(ordinates), AsFloat(absolutes), weights))

CalculateShearYZ ==
    Call("ShearYZ", ShearYZ_calculate(AsFloat(ordinates), AsFloat(absolutes), weights))

CalculateRotationTranslationXY ==
    Call("RotationTranslationXY",
         RotationTranslationXY_calculate(AsFloat(ordinates), AsFloat(absolutes), weights))

CalculateQRFactorization ==
    Call("QRFactorization", QRFactorization_calculate(AsFloat(ordinates), AsFloat(absolutes), weights))

Next ==
    \/ CalculateNoConstraints
    \/ CalculateZRotationShear
    \/ CalculateZRotationHscale
    \/ CalculateZRotationHscaleZbaseline
    \/ CalculateRotationTranslation3D
    \/ CalculateRescale3D
    \/ CalculateTranslateOrigins
    \/ CalculateShearYZ
    \/ CalculateRotationTranslationXY
    \/ CalculateQRFactorization

Spec == Init /\ [][Next]_vars

(***************************************************************************)
(* Transform(memory).get_weights(times, time), called once on an instance  *)
(* constructed with any memory.                                            *)
(***************************************************************************)
Memories == {PosInf, NegInf} \cup {Rat(k) : k \in -MaxMemory..MaxMemory}

RECURSIVE SeqsUpTo(_, _)
SeqsUpTo(S, n) ==
    IF n = 0 THEN {<<>>}
    ELSE LET shorter == SeqsUpTo(S, n - 1)
         IN  shorter \cup {Append(q, x) : q \in {r \in shorter : Len(r) = n - 1}, x \in S}

TimeChoices == SeqsUpTo(0..MaxTime, MaxSamples)

NoCalculate ==
    /\ ordinates = Single
    /\ absolutes = Single
    /\ weights = None
    /\ strategy = "none"
    /\ result = NoResult
    /\ chk = NoCheck

InitWeights ==
    /\ memory \in Memories
    /\ times \in TimeChoices
    /\ time \in {Omitted} \cup {At(t) : t \in 0..MaxTime}
    /\ wresult = NoResult
    /\ NoCalculate
    /\ NoClient
    /\ NoOthers

GetWeights ==
    /\ wresult = NoResult
    /\ wresult' = get_weights(memory, times, time)
    /\ UNCHANGED <<memory, times, time>>
    /\ UNCHANGED <<ordinates, absolutes, weights, strategy, result, chk>>
    /\ UNCHANGED <<cvars, ovars>>

NextWeights == GetWeights

SpecWeights == InitWeights /\ [][NextWeights]_vars

(***************************************************************************)
(* A MiniSeedInputClient and any sequence of connect, send and close calls *)
(* on it.                                                                  *)
(***************************************************************************)
\* the operation that precedes the next call, and whether it raised
Previous == [op |-> call.op, raised |-> call.outcome.kind = "raise"]

InitClient ==
    /\ NoClient
    /\ NoOthers
    /\ NoCalculate
    /\ NoGetWeights

Connect ==
    \E k \in 0..MaxAttempts, env \in Envs :
        LET c == connect(socket, k, env)
        IN  /\ socket' = c.socket
            /\ call' = CallRecord("connect", k, env, socket, c.attempts, FALSE,
                                  NoSocket, 0, c.outcome, Previous)
            /\ UNCHANGED <<ordinates, absolutes, weights, strategy, result, chk, wvars, ovars>>

Send ==
    \E env \in Envs, encoded \in BOOLEAN, sent \in BOOLEAN :
        LET c == send(socket, env, encoded, sent)
        IN  /\ socket' = c.socket
            /\ call' = CallRecord("send", DefaultMaxAttempts, env, socket, c.attempts,
                                  c.sendall, c.sentOn, 0, c.outcome, Previous)
            /\ UNCHANGED <<ordinates, absolutes, weights, strategy, result, chk, wvars, ovars>>

Close ==
    \E closed \in BOOLEAN :
        LET c == close(socket, closed)
        IN  /\ socket' = c.socket
            /\ call' = CallRecord("close", 0, NoEnv, socket, 0, FALSE, NoSocket,
                                  c.closes, c.outcome, Previous)
            /\ UNCHANGED <<ordinates, absolutes, weights, strategy, result, chk, wvars, ovars>>

NextClient == Connect \/ Send \/ Close

SpecClient == InitClient /\ [][NextClient]_vars

(***************************************************************************)
(* Properties of calculate                                                 *)
(***************************************************************************)
Called == strategy # "none"

Returned == result.kind = "return"

Raised == result.kind = "raise"

Is4x4(M) == DOMAIN M = 1..4 /\ \A i \in 1..4 : DOMAIN M[i] = 1..4

IsSentinel(M) == Is4x4(M) /\ \A i, j \in 1..4 : IsNaN(M[i][j])

IsNumeric(M) == Is4x4(M) /\ \A i, j \in 1..4 : ~IsNaN(M[i][j])

ReturnedNumeric == Returned /\ IsNumeric(result.value)

ReturnedSentinel == Returned /\ IsSentinel(result.value)

N == Len(ordinates[1])

LeastSquaresVariants ==
    {"NoConstraints", "ZRotationShear", "ZRotationHscale", "ZRotationHscaleZbaseline",
     "Rescale3D", "TranslateOrigins", "ShearYZ"}

Block(M, n) == [i \in 1..n |-> [j \in 1..n |-> M[i][j]]]

TranslationColumn(M) == <<M[1][4], M[2][4], M[3][4]>>

IdentityMatrix(n) == [i \in 1..n |-> [j \in 1..n |-> IF i = j THEN One ELSE Zero]]

IsOrthogonal(R, n) == MatMul(Transpose(R, n), R, n) = IdentityMatrix(n)

\* C1: every value calculate returns, whatever the strategy, is a 4x4 matrix
\* that is either the all-NaN sentinel or has bottom row exactly [0, 0, 0, 1].
C1_ReturnedShape ==
    Called /\ Returned =>
        /\ Is4x4(result.value)
        /\ IsSentinel(result.value) \/ result.value[4] = <<Rat(0), Rat(0), Rat(0), Rat(1)>>

C1_Witness ==
    /\ strategy = "NoConstraints" /\ ReturnedNumeric
    /\ result.value[4] = <<Rat(0), Rat(0), Rat(0), Rat(1)>>
    /\ result.value[1][4] # Zero

\* C2: for every strategy, calculate on finite inputs of equal length N >= 1
\* with weights None or non-negative returns a matrix and never raises.
C2_NeverRaises == Called => Returned /\ (IsNumeric(result.value) \/ IsSentinel(result.value))

\* the degeneracy test of the strategy that ran, read from what the call tested:
\* rank < 3 for the least-squares variants, rank < 2 for QRFactorization,
\* sum(S) < 3 for RotationTranslation3D and sum(S) < 2 for RotationTranslationXY
CheckFires ==
    \/ strategy \in LeastSquaresVariants /\ chk.kind = "rank" /\ RLess(chk.val, Rat(3))
    \/ strategy = "QRFactorization" /\ chk.kind = "rank" /\ RLess(chk.val, Rat(2))
    \/ strategy = "RotationTranslation3D" /\ chk.kind = "sumS" /\ RLess(chk.val, Rat(3))
    \/ strategy = "RotationTranslationXY" /\ chk.kind = "sumS" /\ RLess(chk.val, Rat(2))

\* C3: each strategy returns the all-NaN sentinel exactly when its degeneracy
\* check fires, and a numeric matrix otherwise.
C3_SentinelIffCheckFires ==
    Called => /\ CheckFires => ReturnedSentinel
              /\ ~CheckFires => ReturnedNumeric

Coefficients(s) ==
    CASE s = "NoConstraints" -> 12
      [] s = "ZRotationShear" -> 8
      [] s = "ZRotationHscale" -> 6
      [] OTHER -> 3

\* C4: for every least-squares variant, whenever the rank of the weighted
\* design matrix is smaller than the number of coefficients solved for,
\* calculate returns the all-NaN sentinel.
C4_UnderdeterminedIsSentinel ==
    /\ strategy \in LeastSquaresVariants
    /\ chk.kind = "rank"
    /\ RLess(chk.val, Rat(Coefficients(strategy)))
    => ReturnedSentinel

PositiveOrNone(w) == ~w.given \/ \A k \in 1..Len(w.v) : w.v[k] > 0

\* C5: NoConstraints.calculate given only 2 sample pairs, with weights None or
\* positive, returns the all-NaN sentinel.
C5_TwoSamplesIsSentinel ==
    strategy = "NoConstraints" /\ N = 2 /\ PositiveOrNone(weights) => ReturnedSentinel

Outcomes(s, ord, abs, w) ==
    CASE s = "NoConstraints" -> NoConstraints_calculate(ord, abs, w)
      [] s = "ZRotationShear" -> ZRotationShear_calculate(ord, abs, w)
      [] s = "ZRotationHscale" -> ZRotationHscale_calculate(ord, abs, w)
      [] s = "ZRotationHscaleZbaseline" -> ZRotationHscaleZbaseline_calculate(ord, abs, w)
      [] s = "RotationTranslation3D" -> RotationTranslation3D_calculate(ord, abs, w)
      [] s = "Rescale3D" -> Rescale3D_calculate(ord, abs, w)
      [] s = "TranslateOrigins" -> TranslateOrigins_calculate(ord, abs, w)
      [] s = "ShearYZ" -> ShearYZ_calculate(ord, abs, w)
      [] s = "RotationTranslationXY" -> RotationTranslationXY_calculate(ord, abs, w)
      [] s = "QRFactorization" -> QRFactorization_calculate(ord, abs, w)

\* C6: for every strategy, calculate with weights None returns, without
\* raising, a result that calculate returns with a vector of N ones.
C6_NoneMeansOnes ==
    Called /\ ~weights.given =>
        /\ Returned
        /\ result \in { o.result : o \in Outcomes(strategy, AsFloat(ordinates), AsFloat(absolutes),
                                                  Given(Uniform(N, 1))) }

RotationDimension(s) == IF s = "RotationTranslation3D" THEN 3 ELSE 2

\* C7: whenever RotationTranslation3D (3x3 block) or RotationTranslationXY
\* (top-left 2x2 block) returns a non-degenerate matrix, the rotation block is
\* orthogonal with determinant +1, also when the absolutes mirror the ordinates.
C7_ProperRotation ==
    strategy \in {"RotationTranslation3D", "RotationTranslationXY"} /\ ReturnedNumeric =>
        /\ IsOrthogonal(Block(result.value, RotationDimension(strategy)), RotationDimension(strategy))
        /\ Det(Block(result.value, RotationDimension(strategy))) = One

C7_Witness ==
    /\ strategy = "RotationTranslation3D"
    /\ absolutes = Apply(MirrorZ, ordinates)
    /\ ReturnedNumeric
    /\ \A i \in 1..3 : ~RIsZero(chk.S[i])
    /\ Det(Block(result.value, 3)) = One

\* C8: in QRFactorization.calculate, after the sign correction Q has
\* determinant +1, and so has the top-left 2x2 block Q*H of every
\* non-degenerate result, also when the absolutes are the ordinates with X and
\* Y swapped.
C8_QDeterminantOne ==
    strategy = "QRFactorization" /\ ReturnedNumeric =>
        /\ Det(chk.Q) = One
        /\ Det(Block(result.value, 2)) = One

\* the samples determine the transform: twelve independent equations for
\* NoConstraints, three for TranslateOrigins, and for RotationTranslation3D a
\* cross-covariance matrix with at least two non-zero singular values
WellDetermined ==
    \/ strategy = "NoConstraints" /\ chk.kind = "rank" /\ chk.val = Rat(12)
    \/ strategy = "TranslateOrigins" /\ chk.kind = "rank" /\ chk.val = Rat(3)
    \/ strategy = "RotationTranslation3D" /\ chk.kind = "sumS" /\ ~RIsZero(chk.S[2])

RotZ90Block == << <<Rat(0), Rat(-1), Rat(0)>>, <<Rat(1), Rat(0), Rat(0)>>, <<Rat(0), Rat(0), Rat(1)>> >>

UnitVectorsRotated ==
    /\ strategy = "RotationTranslation3D"
    /\ ordinates = Unit
    /\ absolutes = Apply(RotZ90, Unit)

HasForm(s, m) ==
    CASE s = "NoConstraints" -> TRUE
      [] s = "ZRotationShear" ->
            m.A[1][3] = 0 /\ m.A[2][3] = 0 /\ m.A[3][1] = 0 /\ m.A[3][2] = 0
      [] s = "ZRotationHscale" ->
            /\ m.A[1][3] = 0 /\ m.A[2][3] = 0 /\ m.A[3][1] = 0 /\ m.A[3][2] = 0
            /\ m.A[1][1] = m.A[2][2] /\ m.A[2][1] = -m.A[1][2]
      [] s = "ZRotationHscaleZbaseline" ->
            /\ m.A[1][3] = 0 /\ m.A[2][3] = 0 /\ m.A[3][1] = 0 /\ m.A[3][2] = 0
            /\ m.A[1][1] = m.A[2][2] /\ m.A[2][1] = -m.A[1][2]
            /\ m.A[3][3] = 1 /\ m.t[1] = 0 /\ m.t[2] = 0
      [] s = "Rescale3D" ->
            /\ \A i, j \in 1..3 : i # j => m.A[i][j] = 0
            /\ m.t = <<0, 0, 0>>
      [] s = "TranslateOrigins" -> m.A = Identity.A
      [] s = "ShearYZ" ->
            /\ m.A[1] = <<1, 0, 0>> /\ m.A[2][2] = 1 /\ m.A[2][3] = 0 /\ m.A[3][3] = 1
            /\ m.t = <<0, 0, 0>>
      [] OTHER -> FALSE

Affine44(m) ==
    [i \in 1..4 |-> [j \in 1..4 |->
        IF i = 4 THEN (IF j = 4 THEN One ELSE Zero)
        ELSE IF j = 4 THEN Rat(m.t[i]) ELSE Rat(m.A[i][j])]]

\* over-determined and well-conditioned: more equations than coefficients, and
\* a weighted design matrix of full column rank
Determined == chk.kind = "rank" /\ chk.val = Rat(Coefficients(strategy)) /\ 3 * N > Coefficients(strategy)

\* C11: for every least-squares variant, when the system is over-determined and
\* well-conditioned and the absolutes are exactly the image of the ordinates
\* under an affine matrix A of the form the variant returns, calculate returns A.
C11_RoundTrip ==
    \A m \in Maps :
        /\ strategy \in LeastSquaresVariants
        /\ Determined
        /\ absolutes = Apply(m, ordinates)
        /\ HasForm(strategy, m)
        => ReturnedNumeric /\ result.value = Affine44(m)

\* the weighted mean of each channel with the raw weights: the sum of
\* w_i * v_i over the sum of w_i, with w_i = 1 when weights is None
RawWeights == IF weights.given THEN weights.v ELSE [k \in 1..N |-> 1]

Centroid(values) ==
    [i \in 1..3 |-> RDiv(RSum([k \in 1..N |-> Rat(RawWeights[k] * values[i][k])]),
                         RSum([k \in 1..N |-> Rat(RawWeights[k])]))]

Row3(M, i) == <<M[i][1], M[i][2], M[i][3]>>

\* C19: in every non-degenerate result of RotationTranslation3D,
\* RotationTranslationXY and QRFactorization the translation is the centroid of
\* the absolutes minus the linear block applied to the centroid of the
\* ordinates, so that the matrix maps the centroid of the ordinates onto the
\* centroid of the absolutes; the Z row of the planar variants is [0, 0, 1, dz]
\* with dz the difference of the Z centroids; the centroids are weighted means
\* with the raw weights.
C19_CentroidOntoCentroid ==
    strategy \in {"RotationTranslation3D", "RotationTranslationXY", "QRFactorization"}
    /\ ReturnedNumeric =>
        LET n == RotationDimension(strategy)
            co == Centroid(ordinates)
            ca == Centroid(absolutes)
        IN  /\ \A i \in 1..n :
                   result.value[i][4] =
                       RSub(ca[i], RSum([j \in 1..n |-> RMul(result.value[i][j], co[j])]))
            /\ n = 2 => result.value[3] = <<Zero, Zero, One, RSub(ca[3], co[3])>>
            /\ \A i \in 1..3 :
                   RAdd(Dot(Row3(result.value, i), co), result.value[i][4]) = ca[i]

\* a planar result with weights that differ from their square roots and a
\* centroid of the ordinates away from the origin
C19_Witness ==
    /\ strategy = "RotationTranslationXY" /\ ReturnedNumeric
    /\ weights.given /\ \E k \in 1..N : weights.v[k] > 1
    /\ \E k \in 1..N : weights.v[k] # weights.v[1]
    /\ TranslationColumn(result.value) # <<Zero, Zero, Zero>>
    /\ Block(result.value, 2) # IdentityMatrix(2)

\* the design matrix, the stacked absolutes and the weighting method of each
\* least-squares variant, and the layout of its result
OrdStacked(s, ord) ==
    CASE s = "NoConstraints" -> NoConstraints_ord_stacked(ord)
      [] s = "ZRotationShear" -> ZRotationShear_ord_stacked(ord)
      [] s = "ZRotationHscale" -> ZRotationHscale_ord_stacked(ord)
      [] s = "ZRotationHscaleZbaseline" -> ZRotationHscaleZbaseline_ord_stacked(ord)
      [] s = "Rescale3D" -> Rescale3D_ord_stacked(ord)
      [] s = "TranslateOrigins" -> TranslateOrigins_ord_stacked(ord)
      [] s = "ShearYZ" -> ShearYZ_ord_stacked(ord)

AbsStacked(s, ord, abs) ==
    CASE s = "ZRotationHscaleZbaseline" -> ZRotationHscaleZbaseline_abs_stacked(ord, abs)
      [] s = "TranslateOrigins" -> TranslateOrigins_abs_stacked(ord, abs)
      [] OTHER -> get_stacked_absolutes(abs)

WeightedRows(s, values, w) ==
    IF s = "TranslateOrigins" THEN TranslateOrigins_get_weighted_rows(values, w)
    ELSE LeastSq_get_weighted_rows(values, w)

WeightedValues(s, values, w) ==
    IF s = "TranslateOrigins" THEN TranslateOrigins_get_weighted_values(values, w)
    ELSE LeastSq_get_weighted_values(values, w)

Format(s, M_r) ==
    CASE s = "NoConstraints" -> NoConstraints_format(M_r)
      [] s = "ZRotationShear" -> ZRotationShear_format(M_r)
      [] s = "ZRotationHscale" -> ZRotationHscale_format(M_r)
      [] s = "ZRotationHscaleZbaseline" -> ZRotationHscaleZbaseline_format(M_r)
      [] s = "Rescale3D" -> Rescale3D_format(M_r)
      [] s = "TranslateOrigins" -> TranslateOrigins_format(M_r)
      [] s = "ShearYZ" -> ShearYZ_format(M_r)

\* the sample a stacked position belongs to, and its weight
SampleOf(j) == ((j - 1) \div 3) + 1

WeightOf(i) == IF weights.given THEN Rat(weights.v[i]) ELSE One

\* every entry of the weighted vector is the entry of the unweighted one times
\* the square root of the weight of its sample, and the same entry when
\* weights is None
TimesSqrtWeight(weighted, values) ==
    /\ Len(weighted) = Len(values)
    /\ \A j \in 1..Len(values) :
           weighted[j] = IF weights.given
                         THEN RMul(values[j], RSqrt(WeightOf(SampleOf(j))))
                         ELSE values[j]

\* x is a stationary point, hence a minimiser, of the sum over the samples of
\* w_i times the squared residual of sample i: A W (A^T x - b) = 0
MinimisesWeightedResiduals(A, b, x) ==
    \A res \in { [j \in 1..Len(b) |->
                     RMul(WeightOf(SampleOf(j)),
                          RSub(RSum([r \in 1..Len(A) |-> RMul(A[r][j], x[r])]), b[j]))] } :
        \A r \in 1..Len(A) : RIsZero(Dot(A[r], res))

\* C20: in every least-squares variant the design matrix and the stacked
\* absolutes have the three entries of sample i multiplied by sqrt(w_i), so that
\* the solve minimises the sum over the samples of w_i times the squared
\* residual of the sample; with weights None the values are used unchanged; the
\* TranslateOrigins override of get_weighted_values gives the products of the
\* LeastSq base method.
C20_SqrtWeighting ==
    Called /\ strategy \in LeastSquaresVariants =>
        \A A \in {OrdStacked(strategy, AsFloat(ordinates))} :
        \A b \in {AbsStacked(strategy, AsFloat(ordinates), AsFloat(absolutes))} :
        \A Aw \in {WeightedRows(strategy, A, weights)} :
        \A bw \in {WeightedValues(strategy, b, weights)} :
        \A s \in {LeastSqSolve(Aw, bw)} :
            /\ \A r \in 1..Len(A) : TimesSqrtWeight(Aw[r], A[r])
            /\ TimesSqrtWeight(bw, b)
            /\ Aw = LeastSq_get_weighted_rows(A, weights)
            /\ bw = LeastSq_get_weighted_values(b, weights)
            /\ MinimisesWeightedResiduals(A, b, s.x)
            /\ result = RankTest(s, Format(strategy, s.x)).result

\* a solve that returns a matrix, with weights that differ from their square
\* roots and from each other
C20_Witness ==
    /\ strategy \in LeastSquaresVariants /\ ReturnedNumeric
    /\ weights.given /\ \E k \in 1..N : weights.v[k] > 1
    /\ \E k \in 1..N : weights.v[k] # weights.v[1]
    /\ absolutes # ordinates

\* C20: the TranslateOrigins override is exercised too
C20_WitnessOverride ==
    /\ strategy = "TranslateOrigins" /\ ReturnedNumeric /\ absolutes # ordinates
    /\ weights.given /\ \E k \in 1..N : weights.v[k] > 1

(***************************************************************************)
(* The arrays a call writes in place.  An array is named by the buffer it  *)
(* reads and writes through: one of the caller's arrays "ordinates",       *)
(* "absolutes", "weights", "times", or "local" for an array allocated      *)
(* during the call.  A view shares the buffer of its base.                 *)
(***************************************************************************)
Local == "local"

Caller(ord, abs, w, ts) == [ordinates |-> ord, absolutes |-> abs, weights |-> w, times |-> ts]

\* np.zeros, np.linalg.qr and arithmetic on arrays allocate their result
np_zeros_buffer == Local

np_linalg_qr_buffer == Local

\* fault variant of np_vstack_buffer: the result shares the buffer of its argument
np_vstack_buffer_View(sources) == sources

\* np.vstack copies its arguments into a new array
np_vstack_buffer(sources) == Local

\* .T is a view and .ravel() is a view where the layout allows it
View(buf) == buf

\* np.vstack([absolutes[0], absolutes[1], absolutes[2]]).T.ravel()
get_stacked_absolutes_buffer(abs_buf) == View(View(np_vstack_buffer(abs_buf)))

\* an assignment a[...] = v through buffer buf, where contents is what the
\* array owning the buffer holds afterwards
Store(c, buf, contents) ==
    IF buf \in DOMAIN c THEN [c EXCEPT ![buf] = contents] ELSE c

IntVecSub(u, v) == [i \in 1..Len(u) |-> u[i] - v[i]]

\* abs_stacked[2::3] = absolutes[2] - ordinates[2]
ZRotationHscaleZbaseline_writes(c) ==
    LET ord_written == Store(c, np_zeros_buffer, c.ordinates)
    IN  Store(ord_written, get_stacked_absolutes_buffer("absolutes"),
              [c.absolutes EXCEPT ![3] = IntVecSub(c.absolutes[3], c.ordinates[3])])

\* abs_stacked[0::3], [1::3], [2::3] = absolutes[i] - ordinates[i]
TranslateOrigins_writes(c) ==
    LET ord_written == Store(c, np_zeros_buffer, c.ordinates)
    IN  Store(ord_written, get_stacked_absolutes_buffer("absolutes"),
              [i \in 1..3 |-> IntVecSub(c.absolutes[i], c.ordinates[i])])

\* the other least-squares variants write ord_stacked only
LeastSq_writes(c) == Store(c, np_zeros_buffer, c.ordinates)

\* Q[:, neg] = -1 * Q[:, neg]; R[neg, :] = -1 * R[neg, :]
QRFactorization_writes(c) ==
    Store(Store(c, np_linalg_qr_buffer, c.absolutes), np_linalg_qr_buffer, c.absolutes)

\* weights[times <= time] = ...; weights[times >= time] = ... on the np.zeros
\* array; times is rebound to the copy astype returns and never written
get_weights_writes(c) ==
    Store(Store(c, np_zeros_buffer, c.weights), np_zeros_buffer, c.weights)

\* the caller's arrays after a call of strategy s
Writes(s, c) ==
    CASE s = "ZRotationHscaleZbaseline" -> ZRotationHscaleZbaseline_writes(c)
      [] s = "TranslateOrigins" -> TranslateOrigins_writes(c)
      [] s \in {"NoConstraints", "ZRotationShear", "ZRotationHscale", "Rescale3D", "ShearYZ"}
            -> LeastSq_writes(c)
      [] s = "QRFactorization" -> QRFactorization_writes(c)
      [] OTHER -> c

(***************************************************************************)
(* Any sequence of calculate and get_weights calls on the caller's arrays  *)
(* and one instance per strategy sharing the memory attribute.             *)
(***************************************************************************)
FrameOrdinates == {Pair, Single}

FrameMaps == {Identity, Translate}

FrameWeights(n) == {None, Given(Uniform(n, 1)), Given(Ramp(n))}

FrameTimes(n) == {[i \in 1..n |-> i - 1], [i \in 1..n |-> n - i]}

InitFrame ==
    /\ ordinates \in FrameOrdinates
    /\ absolutes \in {Apply(m, ordinates) : m \in FrameMaps}
    /\ weights \in FrameWeights(Len(ordinates[1]))
    /\ times \in FrameTimes(Len(ordinates[1]))
    /\ memory \in {PosInf, Rat(1)}
    /\ time = Omitted
    /\ strategy = "none"
    /\ result = NoResult
    /\ chk = NoCheck
    /\ wresult = NoResult
    /\ NoClient
    /\ NoOthers

CalculateAny ==
    \E s \in Strategies :
        /\ \E o \in Outcomes(s, AsFloat(ordinates), AsFloat(absolutes), weights) :
               result' = o.result /\ chk' = o.chk
        /\ strategy' = s
        /\ LET c == Writes(s, Caller(ordinates, absolutes, weights, times))
           IN  /\ ordinates' = c.ordinates
               /\ absolutes' = c.absolutes
               /\ weights' = c.weights
               /\ times' = c.times
        /\ UNCHANGED <<memory, time, wresult, cvars, ovars>>

GetWeightsAny ==
    \E tm \in {Omitted, At(0)} :
        /\ time' = tm
        /\ wresult' = get_weights(memory, times, tm)
        /\ LET c == get_weights_writes(Caller(ordinates, absolutes, weights, times))
           IN  /\ ordinates' = c.ordinates
               /\ absolutes' = c.absolutes
               /\ weights' = c.weights
               /\ times' = c.times
        /\ UNCHANGED <<memory, strategy, result, chk, cvars, ovars>>

NextFrame == CalculateAny \/ GetWeightsAny

SpecFrame == InitFrame /\ [][NextFrame]_vars

\* C16: calculate of every strategy and get_weights leave the caller's
\* ordinates, absolutes, weights and times arrays and the instance's memory
\* attribute as they were, in every sequence of calls; the in-place edits of the
\* stacked absolutes in TranslateOrigins and ZRotationHscaleZbaseline go to an
\* array allocated during the call.
C16_ArgumentsUnchanged ==
    [][<<ordinates', absolutes', weights', times', memory'>>
          = <<ordinates, absolutes, weights, times, memory>>]_vars

\* TranslateOrigins returned a matrix for absolutes that differ from the
\* ordinates, after a get_weights call with finite memory
C16_Witness ==
    /\ strategy \in {"TranslateOrigins", "ZRotationHscaleZbaseline"}
    /\ ReturnedNumeric
    /\ absolutes[3] # ordinates[3]
    /\ wresult.kind = "return" /\ memory = Rat(1)

(***************************************************************************)
(* Transform.get_weights: claims.                                          *)
(***************************************************************************)
WeightsReturned == wresult.kind = "return"

WeightsRaised == wresult.kind = "raise"

IsOne(w) == w.ln = Zero

\* the reference time the call uses, for non-empty times
Reference ==
    IF time.given THEN time.v
    ELSE CHOOSE t \in {times[i] : i \in 1..Len(times)} : \A i \in 1..Len(times) : times[i] <= t

FiniteMemory == memory[2] # 0

\* C12: when memory is +infinity, get_weights returns a vector of ones of the
\* length of times, for every non-empty times and every reference time, given
\* or omitted.
C12_InfiniteMemoryOnes ==
    wresult # NoResult /\ memory = PosInf /\ times # <<>>
        => /\ WeightsReturned
           /\ Len(wresult.value) = Len(times)
           /\ \A i \in 1..Len(times) : IsOne(wresult.value[i])

C12_Witness ==
    /\ WeightsReturned /\ memory = PosInf /\ Len(times) >= 2
    /\ time.given /\ \E i \in 1..Len(times) : times[i] # time.v

\* the weight exp(-d / memory) for a finite non-zero memory
ExpDecay(d) == [ln |-> RDiv(Rat(-d), memory)]

\* the weight 1 at the reference time and the symmetric decay around it
SymmetricDecay ==
    /\ WeightsReturned
    /\ Len(wresult.value) = Len(times)
    /\ \A i \in 1..Len(times) :
           /\ times[i] = Reference => IsOne(wresult.value[i])
           /\ wresult.value[i] = ExpDecay(Abs(times[i] - Reference))

\* C13, as stated: for every finite memory, a sample at the reference time gets
\* weight exactly 1.
C13_ReferenceWeightOneAsStated ==
    wresult # NoResult /\ FiniteMemory /\ times # <<>>
        => /\ WeightsReturned
           /\ \A i \in 1..Len(times) : times[i] = Reference => IsOne(wresult.value[i])

\* C13, amended: for every finite non-zero memory, a sample at the reference
\* time gets weight exactly 1 and samples at distance d on either side of the
\* reference get the same weight exp(-d / memory).
C13_SymmetricDecay ==
    wresult # NoResult /\ FiniteMemory /\ memory # Zero /\ times # <<>>
        => SymmetricDecay

C13_Witness ==
    /\ WeightsReturned /\ FiniteMemory /\ memory # Zero /\ time.given
    /\ \E i, j, k \in 1..Len(times) :
           /\ times[i] < time.v /\ times[j] = time.v /\ times[k] > time.v
           /\ time.v - times[i] = times[k] - time.v
           /\ wresult.value[i] = wresult.value[k]
           /\ ~IsOne(wresult.value[i])

\* get_weights(times) equals get_weights(times, time=max(times)) and has the
\* length of times
DefaultsToLatest ==
    /\ wresult = get_weights(memory, times, At(Reference))
    /\ WeightsReturned
    /\ Len(wresult.value) = Len(times)

LatestHasWeightOne ==
    \A i \in 1..Len(times) : times[i] = Reference => IsOne(wresult.value[i])

\* C14, as stated: with the reference time omitted, the call equals the call
\* with time = max(times), the output has the length of times and the latest
\* sample gets weight 1.
C14_DefaultsToLatestAsStated ==
    wresult # NoResult /\ ~time.given /\ times # <<>>
        => DefaultsToLatest /\ LatestHasWeightOne

\* C14, amended: with the reference time omitted, the call equals the call with
\* time = max(times) and the output has the length of times; the latest sample
\* gets weight 1 when memory is not zero.
C14_DefaultsToLatest ==
    wresult # NoResult /\ ~time.given /\ times # <<>>
        => DefaultsToLatest /\ (memory # Zero => LatestHasWeightOne)

C14_Witness ==
    /\ WeightsReturned /\ ~time.given /\ FiniteMemory /\ memory # Zero
    /\ Len(times) >= 2
    /\ \E i \in 1..Len(times) : times[i] # Reference /\ ~IsOne(wresult.value[i])
    /\ \E i \in 1..Len(times) : times[i] = Reference /\ IsOne(wresult.value[i])

\* C15: get_weights called with empty times raises and never returns an empty
\* weight vector, for every memory and whether the reference time is given or
\* omitted.
C15_EmptyTimesRaises ==
    wresult # NoResult /\ times = <<>> => WeightsRaised

(***************************************************************************)
(* MiniSeedInputClient: claims.                                            *)
(***************************************************************************)
ClientRaised == call.outcome.kind = "raise"

\* the first attempt among 1..k that succeeds, and 0 if none does
FirstSuccess(k) ==
    IF \E i \in 1..k : call.env[i]
    THEN CHOOSE i \in 1..k : call.env[i] /\ \A j \in 1..(i - 1) : ~call.env[j]
    ELSE 0

\* connect called while a socket is open makes no attempt and keeps the socket
ConnectWhileOpen ==
    call.op = "connect" /\ call.before # NoSocket
        => call.attempts = 0 /\ socket = call.before /\ ~ClientRaised

\* connect(max_attempts = k) called with no socket stops at the first success
\* and stores that socket, and after k failures raises the error of attempt k
ConnectRetries ==
    call.op = "connect" /\ call.before = NoSocket =>
        /\ call.attempts <= call.k
        /\ FirstSuccess(call.k) # 0 =>
               /\ ~ClientRaised
               /\ call.attempts = FirstSuccess(call.k)
               /\ socket = FirstSuccess(call.k)
        /\ FirstSuccess(call.k) = 0 =>
               /\ call.outcome = [kind |-> "raise", exc |-> "socket.error", at |-> call.k]
               /\ call.attempts = call.k
               /\ socket = NoSocket

\* C17, as stated: for every k, connect(max_attempts=k) with no open socket
\* tries at most k times, stops at the first success and stores that socket,
\* re-raises the last socket error after k failures and leaves self.socket
\* None; with a socket open it makes no attempt and leaves self.socket unchanged.
C17_ConnectAsStated == ConnectRetries /\ ConnectWhileOpen

\* C17, amended: the same for k >= 1.
C17_ConnectPositiveAttempts == (call.k >= 1 => ConnectRetries) /\ ConnectWhileOpen

C17_Witness ==
    /\ call.op = "connect" /\ call.before = NoSocket /\ call.k = 3
    /\ ~call.env[1] /\ ~call.env[2] /\ call.env[3]
    /\ socket = 3 /\ call.attempts = 3

\* send connects first whenever self.socket is None and calls sendall only on
\* an open socket
SendConnectsFirst ==
    call'.op = "send" =>
        /\ socket = NoSocket => call'.attempts >= 1
        /\ call'.sendall => call'.sentOn # NoSocket /\ call'.sentOn = socket'

\* after close self.socket is None whether the socket's close returned or
\* raised; close with no socket does nothing
CloseClears ==
    call'.op = "close" =>
        /\ socket' = NoSocket
        /\ socket = NoSocket => call'.closes = 0 /\ call'.outcome.kind = "return"

\* the send that follows a close reconnects
SendAfterCloseReconnects ==
    call.op = "close" /\ call'.op = "send" => call'.attempts >= 1

\* C18: in every sequence of connect, send and close calls the client starts
\* with no socket, send connects first whenever self.socket is None and never
\* calls sendall without an open socket, after close self.socket is None
\* whether the underlying close returned or raised so that the next send
\* reconnects, and close on a client with no socket does nothing.
C18_Lifecycle ==
    /\ socket = NoSocket
    /\ [][SendConnectsFirst /\ CloseClears /\ SendAfterCloseReconnects]_cvars

\* a send that reconnected and sent after a close that raised
C18_Witness ==
    /\ call.op = "send" /\ call.prev.op = "close" /\ call.prev.raised
    /\ call.before = NoSocket
    /\ call.attempts = 2 /\ call.sendall /\ socket # NoSocket

(***************************************************************************)
(* The fixed entries of the least-squares variants.                        *)
(***************************************************************************)
\* the entries coupling Z with X and Y are zero
NoZCoupling(M) ==
    M[1][3] = Zero /\ M[2][3] = Zero /\ M[3][1] = Zero /\ M[3][2] = Zero

\* the horizontal block has the form [[a, b], [-b, a]]
HorizontalRotationScale(M) == M[1][1] = M[2][2] /\ M[2][1] = RNeg(M[1][2])

FixedEntries(s, M) ==
    CASE s = "ZRotationShear" -> NoZCoupling(M)
      [] s = "ZRotationHscale" -> NoZCoupling(M) /\ HorizontalRotationScale(M)
      [] s = "ZRotationHscaleZbaseline" ->
            /\ NoZCoupling(M) /\ HorizontalRotationScale(M)
            /\ M[3][3] = One /\ M[1][4] = Zero /\ M[2][4] = Zero
      [] s = "Rescale3D" ->
            /\ \A i, j \in 1..3 : i # j => M[i][j] = Zero
            /\ TranslationColumn(M) = <<Zero, Zero, Zero>>
      [] s = "TranslateOrigins" -> Block(M, 3) = IdentityMatrix(3)
      [] s = "ShearYZ" ->
            /\ \A i \in 1..3 : M[i][i] = One
            /\ \A i, j \in 1..3 : i < j => M[i][j] = Zero
            /\ TranslationColumn(M) = <<Zero, Zero, Zero>>
      [] OTHER -> TRUE

\* C21: every non-degenerate result has the fixed entries of its variant's
\* constraint, whatever the data: no coupling of Z with X, Y in the three
\* Z-rotation variants, a horizontal block [[a, b], [-b, a]] in ZRotationHscale
\* and ZRotationHscaleZbaseline, Z scale 1 and zero X, Y translation in
\* ZRotationHscaleZbaseline, a diagonal block and zero translation in
\* Rescale3D, an identity block in TranslateOrigins, a unit lower-triangular
\* block and zero translation in ShearYZ.
C21_FixedEntries ==
    ReturnedNumeric => FixedEntries(strategy, result.value)

\* ZRotationHscale returned a matrix that is not the identity, with a rotation
\* in its horizontal block, for absolutes that differ from the ordinates
C21_Witness ==
    /\ strategy = "ZRotationHscale" /\ ReturnedNumeric
    /\ result.value[1][2] # Zero
    /\ absolutes # ordinates

(***************************************************************************)
(* The classes of geomagio/adjusted/transform.  Their base class LeastSq   *)
(* (transform/LeastSq.py) stacks the absolutes as the base class of        *)
(* Transform.py does.                                                      *)
(***************************************************************************)
\* the channel 0..2 and the sample 1..N of the stacked position j
ChannelOf(j) == (j - 1) % 3

transform_LeastSq_get_stacked_absolutes(abs) ==
    [j \in 1..(3 * Len(abs[1])) |-> abs[ChannelOf(j) + 1][((j - 1) \div 3) + 1]]

\* fault variant: the second row takes ordinates[0] without the sign
transform_ZRotationHscaleZbaseline_get_stacked_ordinates_NoSign(ord) ==
    LET n == 3 * Len(ord[1])
        at(c, j) == ord[c][((j - 1) \div 3) + 1]
    IN  << [j \in 1..n |-> CASE ChannelOf(j) = 0 -> at(1, j) [] ChannelOf(j) = 1 -> at(2, j)
                                [] OTHER -> Zero],
           [j \in 1..n |-> CASE ChannelOf(j) = 0 -> at(2, j) [] ChannelOf(j) = 1 -> at(1, j)
                                [] OTHER -> Zero],
           [j \in 1..n |-> IF ChannelOf(j) = 2 THEN One ELSE Zero] >>

\* ord_stacked[0, 0::3] = ordinates[0]; ord_stacked[0, 1::3] = ordinates[1];
\* ord_stacked[1, 0::3] = ordinates[1]; ord_stacked[1, 1::3] = -ordinates[0];
\* ord_stacked[2, 2::3] = 1.0
transform_ZRotationHscaleZbaseline_get_stacked_ordinates(ord) ==
    LET n == 3 * Len(ord[1])
        at(c, j) == ord[c][((j - 1) \div 3) + 1]
    IN  << [j \in 1..n |-> CASE ChannelOf(j) = 0 -> at(1, j) [] ChannelOf(j) = 1 -> at(2, j)
                                [] OTHER -> Zero],
           [j \in 1..n |-> CASE ChannelOf(j) = 0 -> at(2, j) [] ChannelOf(j) = 1 -> RNeg(at(1, j))
                                [] OTHER -> Zero],
           [j \in 1..n |-> IF ChannelOf(j) = 2 THEN One ELSE Zero] >>

\* abs_stacked[2::3] = absolutes[2] - ordinates[2]
transform_ZRotationHscaleZbaseline_get_stacked_values(abs, ord) ==
    LET stacked == transform_LeastSq_get_stacked_absolutes(abs)
    IN  [abs_stacked |-> [j \in 1..Len(stacked) |->
                             IF ChannelOf(j) = 2
                             THEN RSub(abs[3][((j - 1) \div 3) + 1], ord[3][((j - 1) \div 3) + 1])
                             ELSE stacked[j]],
         ord_stacked |-> transform_ZRotationHscaleZbaseline_get_stacked_ordinates(ord)]

transform_ZRotationHscaleZbaseline_format_matrix(matrix) ==
    << <<matrix[1], matrix[2], Zero, Zero>>,
       <<RNeg(matrix[2]), matrix[1], Zero, Zero>>,
       <<Zero, Zero, One, matrix[3]>>,
       <<Zero, Zero, Zero, One>> >>

transform_TranslateOrigins_get_stacked_ordinates(ord) ==
    [r \in 1..3 |-> [j \in 1..(3 * Len(ord[1])) |-> IF ChannelOf(j) = r - 1 THEN One ELSE Zero]]

\* abs_stacked[c::3] = absolutes[c] - ordinates[c] for c = 0, 1, 2
transform_TranslateOrigins_get_stacked_values(abs, ord) ==
    LET stacked == transform_LeastSq_get_stacked_absolutes(abs)
    IN  [abs_stacked |-> [j \in 1..Len(stacked) |->
                             RSub(abs[ChannelOf(j) + 1][((j - 1) \div 3) + 1],
                                  ord[ChannelOf(j) + 1][((j - 1) \div 3) + 1])],
         ord_stacked |-> transform_TranslateOrigins_get_stacked_ordinates(ord)]

transform_TranslateOrigins_get_matrix(matrix) ==
    << <<One, Zero, Zero, matrix[1]>>,
       <<Zero, One, Zero, matrix[2]>>,
       <<Zero, Zero, One, matrix[3]>>,
       <<Zero, Zero, Zero, One>> >>

RefactoredStacked(s, abs, ord) ==
    IF s = "TranslateOrigins" THEN transform_TranslateOrigins_get_stacked_values(abs, ord)
    ELSE transform_ZRotationHscaleZbaseline_get_stacked_values(abs, ord)

RefactoredMatrix(s, matrix) ==
    IF s = "TranslateOrigins" THEN transform_TranslateOrigins_get_matrix(matrix)
    ELSE transform_ZRotationHscaleZbaseline_format_matrix(matrix)

\* three coefficients that differ from each other and from 0 and 1
Probe3 == <<Rat(2), Rat(3), Rat(5)>>

\* C22: for every ordinates and absolutes, the classes ZRotationHscaleZbaseline
\* and TranslateOrigins of geomagio/adjusted/transform build the design matrix
\* and the dependent vector that the calculate of the same name in Transform.py
\* builds before weighting, and place the solved coefficients at the same
\* positions of the 4x4 matrix.
C22_RefactoredTranscribes ==
    Called /\ strategy \in {"ZRotationHscaleZbaseline", "TranslateOrigins"} =>
        \A v \in {RefactoredStacked(strategy, AsFloat(absolutes), AsFloat(ordinates))} :
            /\ v.ord_stacked = OrdStacked(strategy, AsFloat(ordinates))
            /\ v.abs_stacked = AbsStacked(strategy, AsFloat(ordinates), AsFloat(absolutes))
            /\ RefactoredMatrix(strategy, Probe3) = Format(strategy, Probe3)
            /\ \A s \in {LeastSqSolve(WeightedRows(strategy, v.ord_stacked, weights),
                                      WeightedValues(strategy, v.abs_stacked, weights))} :
                   ReturnedNumeric => result.value = RefactoredMatrix(strategy, s.x)

\* ZRotationHscaleZbaseline returned a matrix with a rotation for two or more
\* samples whose Z absolutes differ from the Z ordinates
C22_Witness ==
    /\ strategy = "ZRotationHscaleZbaseline" /\ ReturnedNumeric
    /\ N >= 2 /\ absolutes[3] # ordinates[3]
    /\ result.value[1][2] # Zero
    /\ \E k \in 1..N : ordinates[1][k] # 0

(***************************************************************************)
(* geomagio/processing/obsrio.py: obsrio_filter, filter_realtime and the   *)
(* processing routines.  A factory is "None", the name given on the        *)
(* command line, or the class that was constructed.  A routine runs its    *)
(* Controller updates to the end or raises from one of them; which of the  *)
(* two is the environment's choice.                                        *)
(***************************************************************************)
Intervals == {"realtime", "hour", "day", "days", "minute"}

FactoryNames == {"None", "miniseed", "edge"}

Event(kind, routine) == [kind |-> kind, routine |-> routine]

\* x or default
Or(x, default) == IF x = "None" THEN default ELSE x

\* filter_realtime: the factory named by a string
FactoryFromName(name) ==
    IF name = "miniseed" THEN "MiniSeedFactory"
    ELSE IF name = "edge" THEN "EdgeFactory"
    ELSE name

\* the order of the calls in filter_realtime, should the second be filtered
\* to minutes before it is copied
RealtimeSteps_MinuteFirst ==
    <<"obsrio_tenhertz", "obsrio_minute", "obsrio_second", "obsrio_temperatures">>

\* the order of the calls in filter_realtime
RealtimeSteps ==
    <<"obsrio_tenhertz", "obsrio_second", "obsrio_minute", "obsrio_temperatures">>

\* the default factories of each routine's Controller
DefaultFactories(routine) ==
    CASE routine \in {"obsrio_day", "obsrio_hour"} ->
            [inputFactory |-> "EdgeFactory", outputFactory |-> "MiniSeedFactory"]
      [] routine = "obsrio_minute" ->
            [inputFactory |-> "EdgeFactory", outputFactory |-> "EdgeFactory"]
      [] OTHER ->
            [inputFactory |-> "MiniSeedFactory", outputFactory |-> "EdgeFactory"]

\* the Controller a routine builds from its arguments
ControllerOf(routine, input_factory, output_factory) ==
    [inputFactory |-> Or(input_factory, DefaultFactories(routine).inputFactory),
     outputFactory |-> Or(output_factory, DefaultFactories(routine).outputFactory)]

\* where a run goes on after a routine returned: the next call of
\* filter_realtime, or the end of the run
AfterReturn(r, routine) ==
    IF r.via = "filter_realtime"
            /\ \E i \in 1..(Len(RealtimeSteps) - 1) : RealtimeSteps[i] = routine
    THEN RealtimeSteps[(CHOOSE i \in 1..(Len(RealtimeSteps) - 1) :
                            RealtimeSteps[i] = routine) + 1]
    ELSE "done"

\* a processing routine, called with the run's factories
Routine(r, routine, raises) ==
    IF raises
    THEN [r EXCEPT !.controller = ControllerOf(routine, r.input_factory, r.output_factory),
                   !.events = r.events \o <<Event("start", routine), Event("raise", routine)>>,
                   !.pc = "done",
                   !.outcome = "raised"]
    ELSE [r EXCEPT !.controller = ControllerOf(routine, r.input_factory, r.output_factory),
                   !.events = r.events \o <<Event("start", routine), Event("return", routine)>>,
                   !.pc = AfterReturn(r, routine),
                   !.outcome = IF AfterReturn(r, routine) = "done" THEN "returned" ELSE "none"]

\* obsrio_filter up to the call it makes
obsrio_filter(r) ==
    IF r.interval = "realtime"
    THEN [r EXCEPT !.pc = "filter_realtime"]
    ELSE IF r.interval \in {"hour", "day"}
    THEN IF r.interval = "hour"
         THEN [r EXCEPT !.input_factory = "EdgeFactory",
                        !.output_factory = "MiniSeedFactory",
                        !.pc = "obsrio_hour"]
         ELSE IF r.interval = "days"
         THEN [r EXCEPT !.input_factory = "EdgeFactory",
                        !.output_factory = "MiniSeedFactory",
                        !.pc = "obsrio_day"]
         ELSE [r EXCEPT !.input_factory = "EdgeFactory",
                        !.output_factory = "MiniSeedFactory",
                        !.pc = "done",
                        !.outcome = "returned"]
    ELSE [r EXCEPT !.pc = "done", !.outcome = "ValueError"]

\* filter_realtime up to its first call
filter_realtime(r) ==
    [r EXCEPT !.input_factory = FactoryFromName(r.input_factory),
              !.output_factory = FactoryFromName(r.output_factory),
              !.via = "filter_realtime",
              !.events = r.events \o <<Event("start", "filter_realtime")>>,
              !.pc = RealtimeSteps[1]]

\* the call of an entry point with its arguments
Enter(entry, interval, input_factory, output_factory) ==
    Run(entry, interval, input_factory, output_factory, entry, "none", NoController,
        <<>>, "none")

InitObsrio ==
    /\ NoCalculate
    /\ NoGetWeights
    /\ NoClient
    /\ util = NoUtil
    /\ \E interval \in Intervals, input_factory, output_factory \in FactoryNames :
           \/ obsrio = Enter("obsrio_filter", interval, input_factory, output_factory)
           \/ /\ interval = "realtime"
              /\ obsrio = Enter("filter_realtime", interval, input_factory, output_factory)
           \/ /\ interval = "day"
              /\ obsrio = Enter("obsrio_day", interval, FactoryFromName(input_factory),
                                FactoryFromName(output_factory))

ObsrioStep(next) ==
    /\ obsrio' = next
    /\ UNCHANGED <<ordinates, absolutes, weights, strategy, result, chk, wvars, cvars, util>>

ObsrioFilter ==
    /\ obsrio.pc = "obsrio_filter"
    /\ ObsrioStep(obsrio_filter(obsrio))

FilterRealtime ==
    /\ obsrio.pc = "filter_realtime"
    /\ ObsrioStep(filter_realtime(obsrio))

ObsrioTenhertz ==
    /\ obsrio.pc = "obsrio_tenhertz"
    /\ \E raises \in BOOLEAN : ObsrioStep(Routine(obsrio, "obsrio_tenhertz", raises))

ObsrioSecond ==
    /\ obsrio.pc = "obsrio_second"
    /\ \E raises \in BOOLEAN : ObsrioStep(Routine(obsrio, "obsrio_second", raises))

ObsrioMinute ==
    /\ obsrio.pc = "obsrio_minute"
    /\ \E raises \in BOOLEAN : ObsrioStep(Routine(obsrio, "obsrio_minute", raises))

ObsrioTemperatures ==
    /\ obsrio.pc = "obsrio_temperatures"
    /\ \E raises \in BOOLEAN : ObsrioStep(Routine(obsrio, "obsrio_temperatures", raises))

ObsrioHour ==
    /\ obsrio.pc = "obsrio_hour"
    /\ \E raises \in BOOLEAN : ObsrioStep(Routine(obsrio, "obsrio_hour", raises))

ObsrioDay ==
    /\ obsrio.pc = "obsrio_day"
    /\ \E raises \in BOOLEAN : ObsrioStep(Routine(obsrio, "obsrio_day", raises))

NextObsrio ==
    \/ ObsrioFilter
    \/ FilterRealtime
    \/ ObsrioTenhertz
    \/ ObsrioSecond
    \/ ObsrioMinute
    \/ ObsrioTemperatures
    \/ ObsrioHour
    \/ ObsrioDay

SpecObsrio == InitObsrio /\ [][NextObsrio]_vars

\* the events of a routine in the run
Has(kind, routine) ==
    \E i \in DOMAIN obsrio.events : obsrio.events[i] = Event(kind, routine)

\* the routines started so far, in the order they were started
RECURSIVE StartedOf(_)
StartedOf(events) ==
    IF events = <<>> THEN <<>>
    ELSE IF Head(events).kind = "start" /\ Head(events).routine # "filter_realtime"
    THEN <<Head(events).routine>> \o StartedOf(Tail(events))
    ELSE StartedOf(Tail(events))

IsPrefix(s, t) == Len(s) <= Len(t) /\ \A i \in DOMAIN s : s[i] = t[i]

ThroughRealtime == Has("start", "filter_realtime")

\* C23: filter_realtime runs obsrio_tenhertz, obsrio_second, obsrio_minute and
\* obsrio_temperatures strictly in this order: the routines started so far are
\* a prefix of the four, obsrio_minute is started only after obsrio_second and
\* obsrio_tenhertz have both returned, every routine but the last started one
\* has returned, and nothing is started after a routine raised.
C23_RealtimeOrder ==
    ThroughRealtime =>
        /\ IsPrefix(StartedOf(obsrio.events),
                    <<"obsrio_tenhertz", "obsrio_second", "obsrio_minute",
                      "obsrio_temperatures">>)
        /\ \A i \in DOMAIN obsrio.events :
               /\ obsrio.events[i] = Event("start", "obsrio_minute") =>
                      /\ \E j \in 1..(i - 1) :
                             obsrio.events[j] = Event("return", "obsrio_second")
                      /\ \E j \in 1..(i - 1) :
                             obsrio.events[j] = Event("return", "obsrio_tenhertz")
               /\ obsrio.events[i].kind = "raise" =>
                      /\ i = Len(obsrio.events)
                      /\ obsrio.pc = "done"
                      /\ obsrio.outcome = "raised"
        /\ obsrio.outcome = "returned" =>
               StartedOf(obsrio.events) = <<"obsrio_tenhertz", "obsrio_second",
                                            "obsrio_minute", "obsrio_temperatures">>

\* a run of filter_realtime in which obsrio_minute raised after the two
\* routines before it returned
C23_Witness ==
    /\ ThroughRealtime
    /\ Has("return", "obsrio_tenhertz")
    /\ Has("return", "obsrio_second")
    /\ Has("raise", "obsrio_minute")

\* a run of filter_realtime that went through all four routines
C23_WitnessAll ==
    /\ ThroughRealtime
    /\ obsrio.outcome = "returned"
    /\ Has("return", "obsrio_temperatures")

\* the routine obsrio_filter dispatches an interval to
RoutineOf(interval) ==
    CASE interval = "realtime" -> "filter_realtime"
      [] interval = "hour" -> "obsrio_hour"
      [] interval = "day" -> "obsrio_day"
      [] OTHER -> "none"

\* C30: obsrio_filter dispatches on interval to exactly one routine:
\* 'realtime' to filter_realtime, 'hour' to obsrio_hour, 'day' to obsrio_day;
\* every other value raises ValueError without running any processing, and no
\* accepted interval returns without running its routine.
C30_Dispatch ==
    (obsrio.entry = "obsrio_filter" /\ obsrio.pc = "done") =>
        IF RoutineOf(obsrio.interval) = "none"
        THEN obsrio.outcome = "ValueError" /\ obsrio.events = <<>>
        ELSE /\ obsrio.outcome # "ValueError"
             /\ Has("start", RoutineOf(obsrio.interval))
             /\ \A other \in {"filter_realtime", "obsrio_hour", "obsrio_day"} :
                    Has("start", other) => other = RoutineOf(obsrio.interval)

(***************************************************************************)
(* geomagio/algorithm/DBDTAlgorithm.py and geomagio/TimeseriesUtilities.py.*)
(* A trace is its channel, its start time, its sample period and its data; *)
(* as in obspy, the number of samples and the end time of a trace follow   *)
(* from its data.  Samples are rationals or NaN, times are seconds.        *)
(***************************************************************************)
MaxTraces == 2

MaxNpts == 3

MaxGaps == 2

Trace(channel, starttime, delta, data) ==
    [channel |-> channel, starttime |-> starttime, delta |-> delta, data |-> data]

\* obspy: trace.stats.endtime
Endtime(trace) ==
    trace.starttime + (IF Len(trace.data) = 0 THEN 0 ELSE Len(trace.data) - 1) * trace.delta

\* np.diff
np_diff(data) == [i \in 1..(Len(data) - 1) |-> RSub(data[i + 1], data[i])]

\* TimeseriesUtility.create_empty_trace: a trace of NaN from starttime to endtime
create_empty_trace(starttime, endtime, delta, channel) ==
    Trace(channel, starttime, delta, [i \in 1..((endtime - starttime) \div delta + 1) |-> NaN])

\* the body of the loop of DbDtAlgorithm.process
trace_out(trace) ==
    [create_empty_trace(trace.starttime, Endtime(trace), trace.delta,
                        "DBDT-" \o trace.channel)
        EXCEPT !.data = np_diff(trace.data)]

DbDtAlgorithm_process(stream) == Return([k \in 1..Len(stream) |-> trace_out(stream[k])])

\* the end of a gap that is closed by the sample at index i
GapEnd_AtSample(starttime, i) == starttime + i * 60

\* the end of a gap that is closed by the sample at index i
GapEnd(starttime, i) == starttime + (i - 1) * 60

\* the loop of get_stream_gaps from index i on; gap is <<>> for None
RECURSIVE get_stream_gaps_loop(_, _, _, _, _)
get_stream_gaps_loop(data, starttime, i, gaps, gap) ==
    IF i >= Len(data) THEN [gaps |-> gaps, gap |-> gap]
    ELSE LET opened == IF IsNaN(data[i + 1]) /\ gap = <<>>
                       THEN <<starttime + i * 60>>
                       ELSE gap
             closed == ~IsNaN(data[i + 1]) /\ opened # <<>>
         IN  get_stream_gaps_loop(data, starttime, i + 1,
                 IF closed THEN Append(gaps, Append(opened, GapEnd(starttime, i))) ELSE gaps,
                 IF closed THEN <<>> ELSE opened)

get_stream_gaps(stream, starttime, endtime) ==
    IF stream = <<>> THEN Raise("IndexError")
    ELSE LET after == get_stream_gaps_loop(stream[1].data, starttime, 0, <<>>, <<>>)
         IN  IF after.gap # <<>>
             THEN Return(Append(after.gaps, Append(after.gap, endtime)))
             ELSE Return(after.gaps)

\* obspy: stream.select(channel=channel)
select(stream, channel) == SelectSeq(stream, LAMBDA trace : trace.channel = channel)

\* get_timeseries_gaps; the dict is a function of the channels
get_timeseries_gaps(timeseries, channels, starttime, endtime) ==
    LET stream_gap(channel) == get_stream_gaps(select(timeseries, channel), starttime, endtime)
        keys == {channels[k] : k \in DOMAIN channels}
    IN  IF \E k \in DOMAIN channels : stream_gap(channels[k]).kind = "raise"
        THEN Raise("IndexError")
        ELSE Return([channel \in keys |-> stream_gap(channel).value])

\* gap_stream of get_merged_gaps: the gaps of the channels, one list after the other
RECURSIVE gap_stream(_, _)
gap_stream(gaps, channels) ==
    IF channels = <<>> THEN <<>>
    ELSE gaps[Head(channels)] \o gap_stream(gaps, Tail(channels))

\* sorted(gap_stream, key=lambda starttime: starttime[1]): a stable sort by the
\* second entry of each gap
RECURSIVE sorted(_)
sorted(list) ==
    IF list = <<>> THEN <<>>
    ELSE LET front == sorted(SubSeq(list, 1, Len(list) - 1))
             last == list[Len(list)]
             keep == Cardinality({k \in DOMAIN front : front[k][2] <= last[2]})
         IN  SubSeq(front, 1, keep) \o <<last>> \o SubSeq(front, keep + 1, Len(front))

\* the loop of get_merged_gaps from index i on
RECURSIVE get_merged_gaps_loop(_, _, _, _)
get_merged_gaps_loop(sorted_gaps, i, gap, merged_gaps) ==
    IF i >= Len(sorted_gaps) THEN Append(merged_gaps, gap)
    ELSE LET nxtgap == sorted_gaps[i + 1]
         IN  IF nxtgap[1] >= gap[1] /\ nxtgap[1] <= gap[2]
             THEN get_merged_gaps_loop(sorted_gaps, i + 1,
                      IF nxtgap[2] > gap[2] THEN <<gap[1], nxtgap[2]>> ELSE gap,
                      merged_gaps)
             ELSE get_merged_gaps_loop(sorted_gaps, i + 1, nxtgap, Append(merged_gaps, gap))

get_merged_gaps(gaps, channels) ==
    LET sorted_gaps == sorted(gap_stream(gaps, channels))
    IN  IF sorted_gaps = <<>> THEN Raise("IndexError")
        ELSE Return(get_merged_gaps_loop(sorted_gaps, 1, sorted_gaps[1], <<>>))

\* the arguments of the calls
Channels == {"H", "E"}

DbDtData ==
    {<<>>, <<Rat(1)>>, <<Rat(1), Rat(2)>>, <<Rat(1), Rat(2), Rat(4)>>,
     <<Rat(3), Rat(1), Rat(2)>>}

GapData == SeqsUpTo({One, NaN}, MaxNpts)

GapTimes == {0, 60, 120}

GapChoices == {<<start, end>> : start \in GapTimes, end \in GapTimes} \ 
              {<<start, end>> \in GapTimes \X GapTimes : start > end}

InitUtil ==
    /\ NoCalculate
    /\ NoGetWeights
    /\ NoClient
    /\ obsrio = NoObsrio
    /\ \/ \E stream \in SeqsUpTo({Trace(channel, 0, 60, data) :
                                     channel \in Channels, data \in DbDtData}, MaxTraces) :
              util = UtilCall("process", stream, <<>>, 0, 0, <<>>, NoResult)
       \/ \E data \in GapData, starttime \in {0, 60}, k \in 0..MaxNpts, traces \in 0..2 :
              util = UtilCall("get_stream_gaps",
                              SubSeq(<<Trace("H", starttime, 60, data),
                                       Trace("E", starttime, 60, <<NaN>>)>>, 1, traces),
                              <<>>, starttime, starttime + 60 * k, <<>>, NoResult)
       \/ \E h, e \in SeqsUpTo({One, NaN}, 2), channels \in {<<"H">>, <<"H", "E">>, <<"E", "H">>},
             traces \in 1..2 :
              util = UtilCall("get_timeseries_gaps",
                              SubSeq(<<Trace("H", 0, 60, h), Trace("E", 0, 60, e)>>, 1, traces),
                              channels, 0, 60, <<>>, NoResult)
       \/ \E h, e \in SeqsUpTo(GapChoices, MaxGaps), channels \in {<<"H", "E">>, <<"E", "H">>} :
              util = UtilCall("get_merged_gaps", <<>>, channels, 0, 0,
                              [channel \in Channels |-> IF channel = "H" THEN h ELSE e],
                              NoResult)

UtilReturns(op, out) ==
    /\ util.op = op
    /\ util.out = NoResult
    /\ util' = [util EXCEPT !.out = out]
    /\ UNCHANGED <<ordinates, absolutes, weights, strategy, result, chk, wvars, cvars, obsrio>>

Process == UtilReturns("process", DbDtAlgorithm_process(util.stream))

GetStreamGaps ==
    UtilReturns("get_stream_gaps", get_stream_gaps(util.stream, util.starttime, util.endtime))

GetTimeseriesGaps ==
    UtilReturns("get_timeseries_gaps",
                get_timeseries_gaps(util.stream, util.channels, util.starttime, util.endtime))

GetMergedGaps == UtilReturns("get_merged_gaps", get_merged_gaps(util.gaps, util.channels))

NextUtil ==
    \/ Process
    \/ GetStreamGaps
    \/ GetTimeseriesGaps
    \/ GetMergedGaps

SpecUtil == InitUtil /\ [][NextUtil]_vars

UtilReturned(op) == util.op = op /\ util.out.kind = "return"

\* np.gradient with unit spacing: central differences inside, one-sided
\* differences at the two ends
np_gradient(data) ==
    [i \in 1..Len(data) |->
        IF i = 1 THEN RSub(data[2], data[1])
        ELSE IF i = Len(data) THEN RSub(data[i], data[i - 1])
        ELSE RDiv(RSub(data[i + 1], data[i - 1]), Rat(2))]

\* C24: DbDtAlgorithm.process returns one output trace per input trace, in the
\* same order, with channel 'DBDT-' + the input channel and with the
\* numpy.gradient of the input data as data, so that each output trace has as
\* many samples as its input trace and as its own start and end time describe.
C24_Derivative ==
    UtilReturned("process") =>
        /\ Len(util.out.value) = Len(util.stream)
        /\ \A k \in DOMAIN util.stream :
               LET in == util.stream[k]
                   out == util.out.value[k]
               IN  /\ out.channel = "DBDT-" \o in.channel
                   /\ Len(out.data) = Len(in.data)
                   /\ Len(in.data) >= 2 => out.data = np_gradient(in.data)
                   /\ Len(out.data) >= 1 =>
                          (Endtime(out) - out.starttime) \div out.delta + 1 = Len(out.data)

\* the maximal runs of NaN in the data, as pairs of 0-based indices
Runs(data) ==
    {run \in (0..(Len(data) - 1)) \X (0..(Len(data) - 1)) :
        /\ run[1] <= run[2]
        /\ \A i \in run[1]..run[2] : IsNaN(data[i + 1])
        /\ run[1] = 0 \/ ~IsNaN(data[run[1]])
        /\ run[2] = Len(data) - 1 \/ ~IsNaN(data[run[2] + 2])}

\* the pair the claim gives for a run
PairOf(run, data, starttime, endtime) ==
    <<starttime + 60 * run[1],
      IF run[2] = Len(data) - 1 THEN endtime ELSE starttime + 60 * run[2]>>

\* one pair per maximal run, in the order of the runs
OnePairPerRun(pairs, data, starttime, endtime) ==
    /\ Len(pairs) = Cardinality(Runs(data))
    /\ \A k \in DOMAIN pairs :
           \E run \in Runs(data) :
               /\ pairs[k] = PairOf(run, data, starttime, endtime)
               /\ Cardinality({other \in Runs(data) : other[1] < run[1]}) = k - 1

IncreasingDisjoint(pairs) ==
    \A k, l \in DOMAIN pairs : k < l => pairs[k][1] < pairs[l][1] /\ pairs[k][2] < pairs[l][1]

\* C28 as stated: get_stream_gaps returns one pair per maximal run of NaN of the
\* first trace, from starttime + 60*i to starttime + 60*j (to endtime for a run
\* reaching the last sample), in increasing order, pairwise disjoint, every
\* pair with start <= end, and no pair without NaN.
C28_GapsAsStated ==
    UtilReturned("get_stream_gaps") =>
        /\ OnePairPerRun(util.out.value, util.stream[1].data, util.starttime, util.endtime)
        /\ IncreasingDisjoint(util.out.value)
        /\ \A k \in DOMAIN util.out.value : util.out.value[k][1] <= util.out.value[k][2]
        /\ (\A i \in DOMAIN util.stream[1].data : ~IsNaN(util.stream[1].data[i])) =>
               util.out.value = <<>>

\* C28, amended: as stated, but start <= end holds of every pair except that of
\* a run reaching the last sample when endtime lies before that run's start.
C28_Gaps ==
    UtilReturned("get_stream_gaps") =>
        /\ OnePairPerRun(util.out.value, util.stream[1].data, util.starttime, util.endtime)
        /\ IncreasingDisjoint(util.out.value)
        /\ \A k \in DOMAIN util.out.value :
               \/ util.out.value[k][1] <= util.out.value[k][2]
               \/ /\ k = Len(util.out.value)
                  /\ IsNaN(util.stream[1].data[Len(util.stream[1].data)])
                  /\ util.out.value[k][2] = util.endtime
                  /\ util.endtime < util.out.value[k][1]
        /\ (\A i \in DOMAIN util.stream[1].data : ~IsNaN(util.stream[1].data[i])) =>
               util.out.value = <<>>

\* two runs of NaN, the second one reaching the last sample
C28_Witness ==
    /\ UtilReturned("get_stream_gaps")
    /\ Len(util.out.value) = 2
    /\ util.out.value[1][2] = util.starttime
    /\ util.out.value[2] = <<util.starttime + 120, util.endtime>>
    /\ util.endtime > util.starttime + 120

\* the times covered by a list of gaps, at half the sample period
Covered(list) ==
    {t \in {30 * k : k \in 0..4} :
        \E k \in DOMAIN list : list[k][1] <= t /\ t <= list[k][2]}

\* C29: get_merged_gaps returns gaps that are pairwise non-overlapping, two
\* gaps that overlap or touch being merged into one, and whose union is the
\* union of the gaps of all channels.
C29_MergedGaps ==
    UtilReturned("get_merged_gaps") =>
        /\ \A k, l \in DOMAIN util.out.value :
               k # l => \/ util.out.value[k][2] < util.out.value[l][1]
                        \/ util.out.value[l][2] < util.out.value[k][1]
        /\ Covered(util.out.value) = Covered(gap_stream(util.gaps, util.channels))

(***************************************************************************)
(* Relations between calls of calculate with different weights.            *)
(***************************************************************************)
\* the sequence without its k-th entry
Without(seq, k) == [i \in 1..(Len(seq) - 1) |-> IF i < k THEN seq[i] ELSE seq[i + 1]]

\* the samples whose weight is 0 while another weight is positive
ZeroWeighted ==
    {k \in 1..N : /\ weights.given
                  /\ weights.v[k] = 0
                  /\ \E l \in 1..N : weights.v[l] > 0}

\* the results calculate can return for the given arguments
ResultsOf(s, ord, abs, w) == {o.result : o \in Outcomes(s, AsFloat(ord), AsFloat(abs), w)}

\* C25: a sample with weight 0 has no influence: when sample k has weight 0 and
\* another weight is positive, calculate returns what it returns for the
\* remaining N-1 samples with their weights, degenerate or not, for every strategy.
C25_ZeroWeightIsRemoval ==
    Called =>
        \A k \in ZeroWeighted :
            /\ result \in ResultsOf(strategy,
                                    [c \in 1..3 |-> Without(ordinates[c], k)],
                                    [c \in 1..3 |-> Without(absolutes[c], k)],
                                    Given(Without(weights.v, k)))
            /\ ResultsOf(strategy,
                         [c \in 1..3 |-> Without(ordinates[c], k)],
                         [c \in 1..3 |-> Without(absolutes[c], k)],
                         Given(Without(weights.v, k)))
                   \subseteq ResultsOf(strategy, ordinates, absolutes, weights)

\* a well-determined call in which a sample has weight 0
C25_Witness ==
    /\ ReturnedNumeric
    /\ ZeroWeighted # {}
    /\ N >= 4
    /\ absolutes # ordinates

\* the weights divided by the constant c
Divided(w, c) == Given([k \in 1..Len(w.v) |-> w.v[k] \div c])

\* the constants c of which every weight of the call is a multiple, some weight
\* being positive (squares, so that the square roots of the weights stay
\* rational)
CommonFactors ==
    {c \in {4} : /\ weights.given
                 /\ \A k \in 1..N : weights.v[k] % c = 0
                 /\ \E k \in 1..N : weights.v[k] > 0}

SVDVariants == {"RotationTranslation3D", "RotationTranslationXY"}

\* calls of calculate whose weights are multiples of 4
InitScale ==
    /\ ordinates \in {Unit, Tetra, Square, Pair, Colinear}
    /\ absolutes \in {Apply(m, ordinates) : m \in {Identity, RotZ90, Scale, Translate}}
    /\ weights \in {Given(Uniform(Len(ordinates[1]), 2)), Given(RampTimes4(Len(ordinates[1])))}
    /\ strategy = "none"
    /\ result = NoResult
    /\ chk = NoCheck
    /\ NoGetWeights
    /\ NoClient
    /\ NoOthers

SpecScale == InitScale /\ [][Next]_vars

\* C26 as stated: only relative weights matter: for every strategy, a call
\* whose weights are c times other weights returns what calculate returns for
\* those other weights, the all-NaN sentinel included.
C26_RelativeWeightsAsStated ==
    Called =>
        \A c \in CommonFactors :
            result \in ResultsOf(strategy, ordinates, absolutes, Divided(weights, c))

\* C26, amended: as stated for every strategy but the two SVD variants; these
\* return the same matrix or sentinel too, except that they may return a matrix
\* where they return the sentinel for the smaller weights.
C26_RelativeWeights ==
    Called =>
        \A c \in CommonFactors :
            \A smaller \in {ResultsOf(strategy, ordinates, absolutes, Divided(weights, c))} :
                \/ result \in smaller
                \/ /\ strategy \in SVDVariants
                   /\ ReturnedNumeric
                   /\ Return(NaNs44) \in smaller

\* a call with unequal weights, all multiples of 4, whose matrix the weights
\* divided by 4 give as well
C26_Witness ==
    /\ ReturnedNumeric
    /\ CommonFactors # {}
    /\ \E k \in 1..N : weights.v[k] # weights.v[1]
    /\ absolutes # ordinates
    /\ strategy \in {"ZRotationHscale", "QRFactorization", "RotationTranslation3D"}
    /\ \A c \in CommonFactors :
           result \in ResultsOf(strategy, ordinates, absolutes, Divided(weights, c))

\* the mean of absolutes[c] - ordinates[c] with the raw weights
MeanDifference(c) ==
    RDiv(RSum([k \in 1..N |-> Rat(RawWeights[k] * (absolutes[c][k] - ordinates[c][k]))]),
         RSum([k \in 1..N |-> Rat(RawWeights[k])]))

AllWeightsZero == weights.given /\ \A k \in 1..N : weights.v[k] = 0

\* C27: TranslateOrigins.calculate returns the translation whose entry for
\* channel c is the mean of absolutes[c] - ordinates[c] with the raw weights,
\* in an identity matrix; whether the result is degenerate depends on the
\* weights only: it is the all-NaN sentinel when every weight is zero and a
\* matrix whenever some weight is positive or weights is None.
C27_TranslateOriginsMean ==
    (Called /\ strategy = "TranslateOrigins") =>
        IF AllWeightsZero
        THEN ReturnedSentinel
        ELSE /\ ReturnedNumeric
             /\ Block(result.value, 3) = IdentityMatrix(3)
             /\ TranslationColumn(result.value) = [c \in 1..3 |-> MeanDifference(c)]
             /\ result.value[4] = <<Zero, Zero, Zero, One>>

\* a call with unequal weights and differences that vary from sample to sample,
\* so that the weighted mean is not the plain mean
C27_Witness ==
    /\ strategy = "TranslateOrigins" /\ ReturnedNumeric
    /\ weights.given
    /\ \E c \in 1..3 :
           MeanDifference(c) # RDiv(RSum([k \in 1..N |-> Rat(absolutes[c][k] - ordinates[c][k])]),
                                    Rat(N))

\* C27: the sentinel for weights that are all zero is reached too
C27_WitnessSentinel ==
    /\ strategy = "TranslateOrigins" /\ ReturnedSentinel /\ AllWeightsZero
    /\ absolutes # ordinates

=============================================================================
